---- MODULE Spec2Model ----
(***************************************************************************)
(* A model of the CPU scheduling core of osconcepts:                       *)
(*   computer/process.rs     Process                                       *)
(*   computer/scheduler.rs   ProcessRecord, Scheduler                      *)
(*   computer/multilevel.rs  MultilevelQueue                               *)
(*                                                                         *)
(* Option<T> is a sequence of length at most one: None is <<>>, Some(x) is *)
(* <<x>>.  A VecDeque is a sequence, front first.  Level k of the source   *)
(* (0-based) is levels[k + 1] here; keys reported to the caller are the    *)
(* source's 0-based keys.  f32 values are integers scaled by Scale, which  *)
(* is exact for the dyadic values the bounded runs produce.                *)
(***************************************************************************)
EXTENDS Integers, Sequences, FiniteSets, TLC

VARIABLES sched,      \* a stand-alone Scheduler (feedback = false)
          levels,     \* MultilevelQueue.levels
          left,       \* left[u]: time_units of the u-th admitted Process, as the driver last saw it
          last,       \* the driver's last call and what it returned
          ran         \* ran[u][k]: ticks the driver gave process u when reported from level k - 1

vars == <<sched, levels, left, last, ran>>

----------------------------------------------------------------------------
(* Bounds of the model.                                                    *)

MaxAdmissions == 3
MaxTime == 3
MaxTickN == 2
MaxQuantum == 2
MaxClock == 6
MaxLevels == 2
MaxLevelTime == 2
MaxLevelQuantum == 1
MaxDriveTime == 8
MaxQueueAdmissions == 4
MaxCascadeLevels == 3
MaxSrtAdmissions == 5
MaxSrtTime == 1

(* Program constants.                                                      *)
INITIAL_TAU == 10

Scale == 2 ^ (MaxAdmissions + 1)

Ids == {0, 1}
Priorities == {-1, 0, 1}
Times == 0 .. MaxTime
Quanta == 0 .. MaxQuantum

None == <<>>
Some(x) == <<x>>
is_some(o) == o # <<>>
is_none(o) == o = <<>>
unwrap(o) == o[1]

----------------------------------------------------------------------------
(* SchedulerAlgorithm                                                      *)

FirstComeFirstServe == [kind |-> "FirstComeFirstServe", quantum |-> 0, alpha2 |-> 0]
Priority == [kind |-> "Priority", quantum |-> 0, alpha2 |-> 0]
PreemptivePriority == [kind |-> "PreemptivePriority", quantum |-> 0, alpha2 |-> 0]
RoundRobin(q) == [kind |-> "RoundRobin", quantum |-> q, alpha2 |-> 0]
\* ShortestRemainingTime(alpha) with alpha = a2 / 2
ShortestRemainingTime(a2) == [kind |-> "ShortestRemainingTime", quantum |-> 0, alpha2 |-> a2]

----------------------------------------------------------------------------
(* Process::full(id, time, code).with_prioirty(priority).  uid is the      *)
(* ordinal of the admission: it names the object, which id (a key that may *)
(* repeat) does not.                                                       *)
Process(uid, id, priority, time) ==
    [uid |-> uid, id |-> id, priority |-> priority,
     time_units |-> time, static_time_units |-> time]

(* A tick that decrements the lifetime without looking at it.              *)
tick_Unguarded(r) ==
    [r EXCEPT !.lifetime = @ - 1,
              !.proc.time_units = IF @ > 0 THEN @ - 1 ELSE @,
              !.estimated_remaining_time = @ - Scale]

(* A tick that does not count down the quantum.                            *)
tick_KeepLifetime(r) ==
    [r EXCEPT !.proc.time_units = IF @ > 0 THEN @ - 1 ELSE @,
              !.estimated_remaining_time = @ - Scale]

(* ProcessRecord::tick                                                     *)
tick(r) ==
    [r EXCEPT !.lifetime = IF @ > 0 THEN @ - 1 ELSE @,
              !.proc.time_units = IF @ > 0 THEN @ - 1 ELSE @,
              !.estimated_remaining_time = @ - Scale]

(* ProcessRecord::tick_n                                                   *)
RECURSIVE tick_n(_, _)
tick_n(r, n) == IF n = 0 THEN r ELSE tick_n(tick(r), n - 1)

----------------------------------------------------------------------------
(* Scheduler                                                               *)

(* Scheduler::new                                                          *)
SchedulerNew(policy) ==
    [policy |-> policy, scheduled |-> None, queue |-> <<>>,
     srt_time_table |-> [k \in {} |-> 0], feedback |-> FALSE, clock |-> 0]

(* Scheduler::with_feedback                                                *)
with_feedback(s) == [s EXCEPT !.feedback = TRUE]

(* HashMap<u32, f32>: a function from the keys present to their values.    *)
contains_key(t, id) == id \in DOMAIN t

(* A lookup that answers the default prediction for every id.              *)
table_get_Default(t, id) == INITIAL_TAU * Scale

table_get(t, id) == t[id]
table_insert(t, id, tau) ==
    [k \in DOMAIN t \cup {id} |-> IF k = id THEN tau ELSE t[k]]

(* set_scheduled_record that leaves lifetime as it finds it.               *)
set_scheduled_record_KeepLifetime(s, record) ==
    [s EXCEPT !.scheduled =
        Some([record EXCEPT !.estimated_remaining_time =
                               table_get(s.srt_time_table, record.proc.id)])]

(* Scheduler::set_scheduled_record                                         *)
set_scheduled_record(s, record) ==
    LET r1 == [record EXCEPT
                 !.estimated_remaining_time = table_get(s.srt_time_table, record.proc.id)]
        r2 == IF s.policy.kind = "RoundRobin"
              THEN [r1 EXCEPT !.lifetime = s.policy.quantum]
              ELSE r1
    IN [s EXCEPT !.scheduled = Some(r2)]

(* set_scheduled that never installs the record it is given.               *)
set_scheduled_Forget(s, record) == [s EXCEPT !.scheduled = None]

(* Scheduler::set_scheduled                                                *)
set_scheduled(s, record) ==
    IF is_some(record) THEN set_scheduled_record(s, unwrap(record))
    ELSE [s EXCEPT !.scheduled = None]

(* VecDeque::remove(index)                                                 *)
RemoveAt(q, i) == SubSeq(q, 1, i - 1) \o SubSeq(q, i + 1, Len(q))

(* Iterator::min_by_key / min_by: the first of the minimal elements.       *)
MinIndex(keys) ==
    CHOOSE i \in 1 .. Len(keys) :
        \A j \in 1 .. Len(keys) :
            keys[j] > keys[i] \/ (keys[j] = keys[i] /\ j >= i)

(* A key that is least for the record admitted last.                       *)
KeyScheduleTime_Latest(r) == 0 - r.schedule_time

KeyScheduleTime(r) == r.schedule_time

(* A key that is least for the largest priority value.                     *)
KeyPriority_Largest(r) == 0 - r.proc.priority

KeyPriority(r) == r.proc.priority

(* A key that orders estimates as the unsigned bit patterns of f32 are     *)
(* ordered: every negative one above every positive one.                   *)
KeyEstimate_Bits(r) ==
    IF r.estimated_remaining_time < 0
    THEN 2 ^ 30 - r.estimated_remaining_time
    ELSE r.estimated_remaining_time

(* The key of min_by with f32::total_cmp, on finite estimates.             *)
KeyEstimate(r) == r.estimated_remaining_time

(* next that reads the selected record and leaves it in the ready set.     *)
next_Peek(s) ==
    IF s.queue = <<>> THEN [s |-> s, rec |-> None]
    ELSE LET index ==
               IF s.policy.kind \in {"FirstComeFirstServe", "RoundRobin"}
               THEN MinIndex([i \in 1 .. Len(s.queue) |-> KeyScheduleTime(s.queue[i])])
               ELSE IF s.policy.kind \in {"Priority", "PreemptivePriority"}
               THEN MinIndex([i \in 1 .. Len(s.queue) |-> KeyPriority(s.queue[i])])
               ELSE MinIndex([i \in 1 .. Len(s.queue) |-> KeyEstimate(s.queue[i])])
         IN [s |-> s, rec |-> Some(s.queue[index])]

(* Scheduler::next: [s |-> the scheduler after, rec |-> the Option popped] *)
next(s) ==
    IF s.queue = <<>> THEN [s |-> s, rec |-> None]
    ELSE LET index ==
               IF s.policy.kind \in {"FirstComeFirstServe", "RoundRobin"}
               THEN MinIndex([i \in 1 .. Len(s.queue) |-> KeyScheduleTime(s.queue[i])])
               ELSE IF s.policy.kind \in {"Priority", "PreemptivePriority"}
               THEN MinIndex([i \in 1 .. Len(s.queue) |-> KeyPriority(s.queue[i])])
               ELSE MinIndex([i \in 1 .. Len(s.queue) |-> KeyEstimate(s.queue[i])])
         IN [s |-> [s EXCEPT !.queue = RemoveAt(s.queue, index)],
             rec |-> Some(s.queue[index])]

(* A seeding step that puts the default in the table at every admission.   *)
seed_entry_Reset(s, id) ==
    [s EXCEPT !.srt_time_table =
        [k \in DOMAIN @ \cup {id} |->
            IF k = id THEN INITIAL_TAU * Scale ELSE @[k]]]

(* A seeding step that leaves the table as it is.                          *)
seed_entry_Skip(s, id) == s

(* Scheduler::schedule_inner, its first statement: an id that is not in    *)
(* the table gets the default prediction.                                  *)
seed_entry(s, id) ==
    IF ~contains_key(s.srt_time_table, id)
    THEN [s EXCEPT !.srt_time_table = table_insert(@, id, INITIAL_TAU * Scale)]
    ELSE s

(* Scheduler::schedule_inner: [s |-> the scheduler after, ret |-> the      *)
(* Option<ProcessRecord> returned]                                         *)
schedule_inner(s0, record0) ==
    LET Preempt(s1, s2) ==
            IF ~s1.feedback
            THEN [s |-> [s2 EXCEPT !.queue = Append(@, unwrap(s1.scheduled))],
                  ret |-> None]
            ELSE [s |-> s2, ret |-> s1.scheduled]
        Admit(s1, record) ==
            IF is_none(s1.scheduled)
            THEN [s |-> set_scheduled_record(s1, record), ret |-> None]
            ELSE IF s1.policy.kind = "PreemptivePriority"
                    /\ record.proc.priority < unwrap(s1.scheduled).proc.priority
            THEN Preempt(s1, set_scheduled_record([s1 EXCEPT !.scheduled = None], record))
            ELSE IF s1.policy.kind = "ShortestRemainingTime"
                    /\ unwrap(s1.scheduled).estimated_remaining_time
                           > table_get(s1.srt_time_table, record.proc.id)
            THEN Preempt(s1, set_scheduled_record([s1 EXCEPT !.scheduled = None], record))
            ELSE [s |-> [s1 EXCEPT !.queue = Append(@, record), !.clock = @ + 1],
                  ret |-> None]
        Stamp(s1) == Admit(s1, [record0 EXCEPT !.schedule_time = s1.clock])
    IN Stamp(seed_entry(s0, record0.proc.id))

(* A schedule that leaves the insertion clock as it finds it.              *)
schedule_KeepsClock(s, process) ==
    [schedule_inner(s, [schedule_time |-> s.clock, lifetime |-> 0,
                        estimated_remaining_time |-> INITIAL_TAU * Scale,
                        proc |-> process])
        EXCEPT !.s.clock = s.clock]

(* A schedule that lets every newcomer displace the current record.        *)
schedule_AlwaysDisplaces(s, process) ==
    LET record == [schedule_time |-> s.clock, lifetime |-> 0,
                   estimated_remaining_time |-> INITIAL_TAU * Scale,
                   proc |-> process]
        s1 == IF contains_key(s.srt_time_table, process.id) THEN s
              ELSE [s EXCEPT !.srt_time_table =
                               table_insert(@, process.id, INITIAL_TAU * Scale)]
    IN IF is_none(s.scheduled) \/ ~s.feedback THEN schedule_inner(s, record)
       ELSE [s |-> set_scheduled_record([s1 EXCEPT !.scheduled = None], record),
             ret |-> s.scheduled]

(* A schedule that also requeues the displaced record in feedback mode.    *)
schedule_KeepsDisplaced(s, process) ==
    LET Keep(r) ==
            IF s.feedback /\ is_some(r.ret)
            THEN [r EXCEPT !.s.queue = Append(@, unwrap(r.ret))]
            ELSE r
    IN Keep(schedule_inner(s, [schedule_time |-> s.clock, lifetime |-> 0,
                               estimated_remaining_time |-> INITIAL_TAU * Scale,
                               proc |-> process]))

(* A schedule that never hands the displaced record back to its caller.    *)
schedule_ReturnsNothing(s, process) ==
    [s |-> schedule_inner(s, [schedule_time |-> s.clock, lifetime |-> 0,
                              estimated_remaining_time |-> INITIAL_TAU * Scale,
                              proc |-> process]).s,
     ret |-> None]

(* A schedule that makes the newcomer current whenever a record is         *)
(* current, and queues the record it displaces.                            *)
schedule_AlwaysPreempts(s, process) ==
    LET record == [schedule_time |-> s.clock, lifetime |-> 0,
                   estimated_remaining_time |-> INITIAL_TAU * Scale,
                   proc |-> process]
        s1 == IF contains_key(s.srt_time_table, process.id) THEN s
              ELSE [s EXCEPT !.srt_time_table =
                               table_insert(@, process.id, INITIAL_TAU * Scale)]
    IN IF is_none(s.scheduled) THEN schedule_inner(s, record)
       ELSE [s |-> [set_scheduled_record([s1 EXCEPT !.scheduled = None], record)
                       EXCEPT !.queue = Append(@, unwrap(s.scheduled))],
             ret |-> None]

(* A schedule that queues the newcomer whenever a record is current.       *)
schedule_NeverPreempts(s, process) ==
    IF is_none(s.scheduled)
    THEN schedule_inner(s, [schedule_time |-> s.clock, lifetime |-> 0,
                            estimated_remaining_time |-> INITIAL_TAU * Scale,
                            proc |-> process])
    ELSE [s |-> [s EXCEPT !.queue = Append(@, [schedule_time |-> s.clock, lifetime |-> 0,
                                              estimated_remaining_time |-> INITIAL_TAU * Scale,
                                              proc |-> process]),
                          !.clock = @ + 1],
          ret |-> None]

(* Scheduler::schedule                                                     *)
schedule(s, process) ==
    schedule_inner(s, [schedule_time |-> s.clock, lifetime |-> 0,
                       estimated_remaining_time |-> INITIAL_TAU * Scale,
                       proc |-> process])

(* A fetch_current that tests the round-robin expiry before it tests       *)
(* whether the current record has finished.                                *)
fetch_current_ExpiryFirst(s) ==
    IF is_none(s.scheduled) THEN [s |-> s, bumped |-> None]
    ELSE IF s.policy.kind = "RoundRobin" /\ unwrap(s.scheduled).lifetime <= 0
    THEN LET current == s.scheduled
             Requeue(s1) ==
                 IF ~s.feedback
                 THEN [s |-> schedule_inner(s1, unwrap(current)).s, bumped |-> None]
                 ELSE [s |-> s1, bumped |-> current]
             Rotate(n) == Requeue(set_scheduled(n.s, n.rec))
         IN Rotate(next([s EXCEPT !.scheduled = None]))
    ELSE IF unwrap(s.scheduled).proc.time_units = 0
    THEN LET fin == unwrap(s.scheduled).proc
             Retire(n) ==
                 [s |-> set_scheduled(
                          IF s.policy.kind = "ShortestRemainingTime"
                          THEN [n.s EXCEPT !.srt_time_table[fin.id] =
                                  (s.policy.alpha2 * fin.static_time_units * Scale
                                     + (2 - s.policy.alpha2) * @) \div 2]
                          ELSE n.s,
                          n.rec),
                  bumped |-> None]
         IN Retire(next(s))
    ELSE [s |-> s, bumped |-> None]

(* fetch_current that retires a finished record without updating the      *)
(* prediction table.                                                       *)
fetch_current_NoLearning(s) ==
    IF is_none(s.scheduled) THEN [s |-> s, bumped |-> None]
    ELSE IF unwrap(s.scheduled).proc.time_units = 0
    THEN LET Retire(n) == [s |-> set_scheduled(n.s, n.rec), bumped |-> None]
         IN Retire(next(s))
    ELSE IF s.policy.kind = "RoundRobin" /\ unwrap(s.scheduled).lifetime <= 0
    THEN LET current == s.scheduled
             Requeue(s1) ==
                 IF ~s.feedback
                 THEN [s |-> schedule_inner(s1, unwrap(current)).s, bumped |-> None]
                 ELSE [s |-> s1, bumped |-> current]
             Rotate(n) == Requeue(set_scheduled(n.s, n.rec))
         IN Rotate(next([s EXCEPT !.scheduled = None]))
    ELSE [s |-> s, bumped |-> None]

(* Scheduler::fetch_current: [s |-> the scheduler after, bumped |-> the    *)
(* second component returned]; the first component is s.scheduled.         *)
fetch_current(s) ==
    IF is_none(s.scheduled) THEN [s |-> s, bumped |-> None]
    ELSE IF unwrap(s.scheduled).proc.time_units = 0
    THEN LET fin == unwrap(s.scheduled).proc
             Retire(n) ==
                 [s |-> set_scheduled(
                          IF s.policy.kind = "ShortestRemainingTime"
                          THEN [n.s EXCEPT !.srt_time_table[fin.id] =
                                  (s.policy.alpha2 * fin.static_time_units * Scale
                                     + (2 - s.policy.alpha2) * @) \div 2]
                          ELSE n.s,
                          n.rec),
                  bumped |-> None]
         IN Retire(next(s))
    ELSE IF s.policy.kind = "RoundRobin" /\ unwrap(s.scheduled).lifetime <= 0
    THEN LET current == s.scheduled
             Requeue(s1) ==
                 IF ~s.feedback
                 THEN [s |-> schedule_inner(s1, unwrap(current)).s, bumped |-> None]
                 ELSE [s |-> s1, bumped |-> current]
             Rotate(n) == Requeue(set_scheduled(n.s, n.rec))
         IN Rotate(next([s EXCEPT !.scheduled = None]))
    ELSE [s |-> s, bumped |-> None]

(* Scheduler::current: [s |-> the scheduler after, ret |-> what it returns] *)
current(s) ==
    LET First(f) == [s |-> f.s, ret |-> f.s.scheduled]
    IN First(fetch_current(s))

(* A current_unchecked that looks at the current slot before the lazy      *)
(* retirement step.                                                        *)
current_unchecked_Eager(s) ==
    LET Unwrap(c) == [s |-> c.s, ret |-> c.ret, panic |-> is_none(s.scheduled)]
    IN Unwrap(current(s))

(* Scheduler::current_unchecked: self.current().unwrap(); panic is TRUE    *)
(* when unwrap is applied to None.                                         *)
current_unchecked(s) ==
    LET Unwrap(c) == [s |-> c.s, ret |-> c.ret, panic |-> is_none(c.ret)]
    IN Unwrap(current(s))

----------------------------------------------------------------------------
(* MultilevelQueue                                                         *)

(* MultilevelQueue::new                                                    *)
MultilevelQueueNew == <<>>

(* MultilevelQueue::with_level                                             *)
with_level(lv, policy) == Append(lv, with_feedback(SchedulerNew(policy)))

(* MultilevelQueue::schedule, the loop from position point on.             *)
RECURSIVE ScheduleFrom(_, _, _)
ScheduleFrom(lv, point, process) ==
    LET Cascade(r) ==
            IF is_none(r.ret) THEN [lv EXCEPT ![point + 1] = r.s]
            ELSE ScheduleFrom([lv EXCEPT ![point + 1] = r.s],
                              IF point # Len(lv) - 1 THEN point + 1 ELSE point,
                              unwrap(r.ret).proc)
    IN Cascade(schedule(lv[point + 1], process))

(* A schedule that starts its loop one level down when there is one.       *)
MultilevelSchedule_Below(lv, process) ==
    ScheduleFrom(lv, IF Len(lv) > 1 THEN 1 ELSE 0, process)

(* MultilevelQueue::schedule, on a queue with at least one level.          *)
MultilevelSchedule(lv, process) == ScheduleFrom(lv, 0, process)

(* MultilevelQueue::schedule panics at self.levels[point], point = 0, when *)
(* there is no level; nothing has been changed by then.                    *)
MultilevelSchedulePanics(lv) == Len(lv) = 0

(* A first-loop iteration that hands the bumped record to the level above. *)
RetireStep_Up(lv, level) ==
    LET target == IF level > 0 THEN level - 1 ELSE level
        Demote(lv1, bumped) ==
            IF is_some(bumped)
            THEN [lv1 EXCEPT ![target + 1] =
                     schedule(lv1[target + 1], unwrap(bumped).proc).s]
            ELSE lv1
        Fetched(f) == Demote([lv EXCEPT ![level + 1] = f.s], f.bumped)
    IN Fetched(fetch_current(lv[level + 1]))

(* MultilevelQueue::current_with_key, one iteration of the first loop.     *)
RetireStep(lv, level) ==
    LET target == IF level < Len(lv) - 1 THEN level + 1 ELSE level
        Demote(lv1, bumped) ==
            IF is_some(bumped)
            THEN [lv1 EXCEPT ![target + 1] =
                     schedule(lv1[target + 1], unwrap(bumped).proc).s]
            ELSE lv1
        Fetched(f) == Demote([lv EXCEPT ![level + 1] = f.s], f.bumped)
    IN Fetched(fetch_current(lv[level + 1]))

(* The iterations level .. end - 1 of the first loop.                      *)
RECURSIVE RetireRange(_, _, _)
RetireRange(lv, level, end) ==
    IF level >= end THEN lv
    ELSE RetireRange(RetireStep(lv, level), level + 1, end)

(* MultilevelQueue::current_with_key, the first loop from level on.        *)
RetirePass(lv, level) == RetireRange(lv, level, Len(lv))

(* MultilevelQueue::current_with_key, the second loop from i on:           *)
(* [levels |-> the levels after, ret |-> Option<(key, record)>]            *)
RECURSIVE ReportScan(_, _)
ReportScan(lv, i) ==
    IF i >= Len(lv) THEN [levels |-> lv, ret |-> None]
    ELSE LET Returned(c2) ==
                 [levels |-> [lv EXCEPT ![i + 1] = c2.s],
                  ret |-> IF is_some(c2.ret) THEN Some(<<i, unwrap(c2.ret)>>)
                          ELSE None]
             Tested(c1) ==
                 IF is_some(c1.ret) THEN Returned(current(c1.s))
                 ELSE ReportScan([lv EXCEPT ![i + 1] = c1.s], i + 1)
         IN Tested(current(lv[i + 1]))

(* current_with_key with a report scan that starts below level 0.          *)
current_with_key_SkipTop(lv) == ReportScan(RetirePass(lv, 0), 1)

(* MultilevelQueue::current_with_key                                       *)
current_with_key(lv) == ReportScan(RetirePass(lv, 0), 0)

(* MultilevelQueue::current: current_with_key().map(|f| f.1)               *)
MultilevelCurrent(lv) ==
    LET Second(c) == [levels |-> c.levels,
                      ret |-> IF is_some(c.ret) THEN Some(unwrap(c.ret)[2])
                              ELSE None]
    IN Second(current_with_key(lv))

(* MultilevelQueue::current_unchecked: self.current().unwrap()             *)
MultilevelCurrentUnchecked(lv) ==
    LET Unwrap(c) == [levels |-> c.levels, ret |-> c.ret,
                      panic |-> is_none(c.ret)]
    IN Unwrap(MultilevelCurrent(lv))

----------------------------------------------------------------------------
(* The driver.                                                             *)

Policies ==
    {FirstComeFirstServe, Priority, PreemptivePriority, ShortestRemainingTime(1)}
        \cup {RoundRobin(q) : q \in Quanta}

Reads(policy, field) ==
    \/ field = "priority" /\ policy.kind \in {"Priority", "PreemptivePriority"}
    \/ field = "id" /\ policy.kind = "ShortestRemainingTime"

(* The processes a driver admits.  A field that no policy in use reads is  *)
(* left at the value Process::full gives it (id: 0).                       *)
Inputs(policies, priorities, times) ==
    {Process(Len(left) + 1, id, pr, t) :
        id \in IF \E p \in policies : Reads(p, "id") THEN Ids ELSE {0},
        pr \in IF \E p \in policies : Reads(p, "priority") THEN priorities ELSE {0},
        t \in times}

(* The insertion clock is a u128 that round-robin re-admission advances   *)
(* without bound when current is called again and again with no tick in   *)
(* between; such calls are explored up to MaxClock.                        *)
ClockOk(s) == s.clock <= MaxClock

NoCall == [op |-> "new", ret |-> None, n |-> 0]

(* A stand-alone Scheduler.                                                *)
InitS ==
    /\ sched \in {SchedulerNew(p) : p \in Policies}
    /\ levels = MultilevelQueueNew
    /\ left = <<>>
    /\ last = NoCall
    /\ ran = <<>>

SSchedule ==
    /\ Len(left) < MaxAdmissions
    /\ \E p \in Inputs({sched.policy}, Priorities, Times) :
          \E r \in {schedule(sched, p)} :
             /\ sched' = r.s
             /\ left' = Append(left, p.time_units)
             /\ last' = [op |-> "schedule", ret |-> r.ret, n |-> 0]
    /\ UNCHANGED <<levels, ran>>

SCurrent ==
    /\ \E c \in {current(sched)} :
          /\ ClockOk(c.s)
          /\ sched' = c.s
          /\ last' = [op |-> "current", ret |-> c.ret, n |-> 0]
    /\ UNCHANGED <<levels, left, ran>>

(* scheduler.current_unchecked().tick_n(n)                                 *)
STick ==
    /\ \E n \in 1 .. MaxTickN :
          \E c \in {current(sched)} :
             /\ is_some(c.ret)
             /\ LET r == tick_n(unwrap(c.ret), n)
                IN /\ sched' = [c.s EXCEPT !.scheduled = Some(r)]
                   /\ left' = [left EXCEPT ![r.proc.uid] = r.proc.time_units]
             /\ last' = [op |-> "tick", ret |-> c.ret, n |-> n]
    /\ UNCHANGED <<levels, ran>>

(* scheduler.current_unchecked().proc.time_units = 0                       *)
SFinish ==
    /\ \E c \in {current(sched)} :
          /\ is_some(c.ret)
          /\ unwrap(c.ret).proc.time_units > 0
          /\ sched' = [c.s EXCEPT !.scheduled[1].proc.time_units = 0]
          /\ left' = [left EXCEPT ![unwrap(c.ret).proc.uid] = 0]
          /\ last' = [op |-> "finish", ret |-> c.ret, n |-> 0]
    /\ UNCHANGED <<levels, ran>>

NextS == SSchedule \/ SCurrent \/ STick \/ SFinish

SpecS == InitS /\ [][NextS]_vars

(* A stand-alone Scheduler built with or without with_feedback().  With    *)
(* feedback the caller receives displaced and bumped records; current()    *)
(* keeps only the first component of fetch_current.                        *)
(* The policies of SpecF: those of Policies, and ShortestRemainingTime     *)
(* with alpha 0, 0.5 and 1.                                                *)
PoliciesF == Policies \cup {ShortestRemainingTime(a2) : a2 \in {0, 1, 2}}

InitF ==
    /\ sched \in {SchedulerNew(p) : p \in PoliciesF}
                 \cup {with_feedback(SchedulerNew(p)) : p \in PoliciesF}
    /\ levels = MultilevelQueueNew
    /\ left = <<>>
    /\ last = NoCall
    /\ ran = <<>>

SpecF == InitF /\ [][NextS]_vars

(* A MultilevelQueue built by new() and with_level.                        *)
LevelPolicies ==
    {FirstComeFirstServe, Priority, PreemptivePriority, ShortestRemainingTime(1)}
        \cup {RoundRobin(q) : q \in 0 .. MaxLevelQuantum}
LevelPriorities == {0, 1}
LevelTimes == 0 .. MaxLevelTime

RECURSIVE Configs(_)
Configs(n) ==
    IF n = 0 THEN {MultilevelQueueNew}
    ELSE {with_level(lv, p) : lv \in Configs(n - 1), p \in LevelPolicies}

LevelConfigs == UNION {Configs(n) : n \in 1 .. MaxLevels}

PoliciesOf(lv) == {lv[i].policy : i \in 1 .. Len(lv)}

LevelsOk(lv) == \A i \in 1 .. Len(lv) : ClockOk(lv[i])

InitM ==
    /\ levels \in LevelConfigs
    /\ sched = SchedulerNew(FirstComeFirstServe)
    /\ left = <<>>
    /\ last = NoCall
    /\ ran = <<>>

MSchedule ==
    /\ Len(left) < MaxAdmissions
    /\ \E p \in Inputs(PoliciesOf(levels), LevelPriorities, LevelTimes) :
          LET lv == MultilevelSchedule(levels, p)
          IN /\ levels' = lv
             /\ left' = Append(left, p.time_units)
             /\ last' = [op |-> "schedule", ret |-> None, n |-> 0]
    /\ UNCHANGED <<sched, ran>>

MCurrent ==
    /\ \E c \in {current_with_key(levels)} :
          /\ LevelsOk(c.levels)
          /\ levels' = c.levels
          /\ last' = [op |-> "current", ret |-> c.ret, n |-> 0]
    /\ UNCHANGED <<sched, left, ran>>

(* queue.current_unchecked().tick_n(n)                                     *)
MTick ==
    /\ \E n \in 1 .. MaxTickN :
          \E c \in {current_with_key(levels)} :
             /\ is_some(c.ret)
             /\ LET key == unwrap(c.ret)[1]
                    r == tick_n(unwrap(c.ret)[2], n)
                IN /\ levels' = [c.levels EXCEPT ![key + 1].scheduled = Some(r)]
                   /\ left' = [left EXCEPT ![r.proc.uid] = r.proc.time_units]
             /\ last' = [op |-> "tick", ret |-> c.ret, n |-> n]
    /\ UNCHANGED <<sched, ran>>

NextM == MSchedule \/ MCurrent \/ MTick

SpecM == InitM /\ [][NextM]_vars

(* A MultilevelQueue none of whose round-robin levels has quantum 0.      *)
InitMQ ==
    /\ InitM
    /\ \A i \in 1 .. Len(levels) :
          levels[i].policy.kind = "RoundRobin" => levels[i].policy.quantum >= 1

SpecMQ == InitMQ /\ [][NextM]_vars

(* A stand-alone Scheduler as in SpecF, or a MultilevelQueue as in SpecM.  *)
InitFM == InitF \/ InitM

NextFM == (Len(levels) = 0 /\ NextS) \/ (Len(levels) > 0 /\ NextM)

SpecFM == InitFM /\ [][NextFM]_vars

(* A MultilevelQueue with any number of levels from zero.  A panic ends    *)
(* the program: last.op = "panic" and no further call is made.             *)
InitZ ==
    /\ levels \in {MultilevelQueueNew} \cup LevelConfigs
    /\ sched = SchedulerNew(FirstComeFirstServe)
    /\ left = <<>>
    /\ last = NoCall
    /\ ran = <<>>

ZSchedule ==
    /\ last.op # "panic"
    /\ Len(left) < MaxAdmissions
    /\ \E p \in Inputs(PoliciesOf(levels), LevelPriorities, LevelTimes) :
          IF MultilevelSchedulePanics(levels)
          THEN /\ levels' = levels
               /\ left' = left
               /\ last' = [op |-> "panic", ret |-> None, n |-> 0]
          ELSE /\ levels' = MultilevelSchedule(levels, p)
               /\ left' = Append(left, p.time_units)
               /\ last' = [op |-> "schedule", ret |-> None, n |-> 0]
    /\ UNCHANGED <<sched, ran>>

ZCurrent == last.op # "panic" /\ MCurrent

ZTick == last.op # "panic" /\ MTick

NextZ == ZSchedule \/ ZCurrent \/ ZTick

SpecZ == InitZ /\ [][NextZ]_vars

----------------------------------------------------------------------------
(* MultilevelQueue::schedule with its while loop taken one iteration at a  *)
(* time, over queues whose levels preempt.  Between iterations             *)
(* last = [op |-> "cascade", ret |-> the displaced record, n |-> point]    *)
(* and ran = <<the level that displaced it>>.                              *)

RECURSIVE PreemptingConfigs(_)
PreemptingConfigs(n) ==
    IF n = 0 THEN {MultilevelQueueNew}
    ELSE {with_level(lv, p) :
            lv \in PreemptingConfigs(n - 1),
            p \in {PreemptivePriority, ShortestRemainingTime(1)}}

InitC ==
    /\ levels \in UNION {PreemptingConfigs(n) : n \in 1 .. MaxCascadeLevels}
    /\ sched = SchedulerNew(FirstComeFirstServe)
    /\ left = <<>>
    /\ last = NoCall
    /\ ran = <<>>

(* One iteration: self.levels[point].schedule(process), then the body.     *)
CascadeStep(point, process) ==
    \E r \in {schedule(levels[point + 1], process)} :
        /\ levels' = [levels EXCEPT ![point + 1] = r.s]
        /\ IF is_some(r.ret)
           THEN /\ last' = [op |-> "cascade", ret |-> r.ret,
                            n |-> IF point # Len(levels) - 1
                                  THEN point + 1 ELSE point]
                /\ ran' = <<point>>
           ELSE /\ last' = [op |-> "schedule", ret |-> None, n |-> 0]
                /\ ran' = <<>>

CBegin ==
    /\ last.op # "cascade"
    /\ Len(left) < MaxAdmissions
    /\ \E p \in Inputs(PoliciesOf(levels), Priorities, LevelTimes) :
          /\ CascadeStep(0, p)
          /\ left' = Append(left, p.time_units)
    /\ UNCHANGED sched

CStep ==
    /\ last.op = "cascade"
    /\ CascadeStep(last.n, unwrap(last.ret).proc)
    /\ UNCHANGED <<sched, left>>

CCurrent == last.op # "cascade" /\ MCurrent

CTick == last.op # "cascade" /\ MTick

NextC == CBegin \/ CStep \/ CCurrent \/ CTick

(* The loop runs on once entered: WF_vars(CStep), with ENABLED             *)
(* <<CStep>>_vars written out (an iteration always changes last or levels). *)
SpecC ==
    InitC /\ [][NextC]_vars /\ ([]<>(last.op # "cascade") \/ []<><<CStep>>_vars)

----------------------------------------------------------------------------
(* A driver loop that calls current (current_with_key) and ticks the       *)
(* record returned once, over a stand-alone Scheduler of any policy or     *)
(* over the MultilevelQueue of the tests; processes are admitted at any    *)
(* point of the loop.                                                      *)

TestLevels ==
    with_level(with_level(with_level(MultilevelQueueNew,
        RoundRobin(2)), RoundRobin(4)), FirstComeFirstServe)

DriveTimes == 0 .. MaxDriveTime

InitD ==
    \/ InitS
    \/ /\ levels = TestLevels
       /\ sched = SchedulerNew(FirstComeFirstServe)
       /\ left = <<>>
       /\ last = NoCall
       /\ ran = <<>>

DSchedule ==
    \/ /\ Len(levels) = 0
       /\ SSchedule
    \/ /\ Len(levels) > 0
       /\ Len(left) < MaxAdmissions
       /\ \E p \in Inputs(PoliciesOf(levels), {0}, DriveTimes) :
             /\ levels' = MultilevelSchedule(levels, p)
             /\ left' = Append(left, p.time_units)
             /\ last' = [op |-> "schedule", ret |-> None, n |-> 0]
       /\ UNCHANGED <<sched, ran>>

(* if let Some(r) = scheduler.current() { r.tick() }                       *)
SDrive ==
    /\ Len(levels) = 0
    /\ \E c \in {current(sched)} :
          IF is_some(c.ret)
          THEN LET r == tick(unwrap(c.ret))
               IN /\ sched' = [c.s EXCEPT !.scheduled = Some(r)]
                  /\ left' = [left EXCEPT ![r.proc.uid] = r.proc.time_units]
                  /\ last' = [op |-> "tick", ret |-> c.ret, n |-> 1]
          ELSE /\ sched' = c.s
               /\ left' = left
               /\ last' = [op |-> "current", ret |-> None, n |-> 0]
    /\ UNCHANGED <<levels, ran>>

(* if let Some((_, r)) = queue.current_with_key() { r.tick() }             *)
MDrive ==
    /\ Len(levels) > 0
    /\ \E c \in {current_with_key(levels)} :
          IF is_some(c.ret)
          THEN LET key == unwrap(c.ret)[1]
                   r == tick(unwrap(c.ret)[2])
               IN /\ levels' = [c.levels EXCEPT ![key + 1].scheduled = Some(r)]
                  /\ left' = [left EXCEPT ![r.proc.uid] = r.proc.time_units]
                  /\ last' = [op |-> "tick", ret |-> c.ret, n |-> 1]
          ELSE /\ levels' = c.levels
               /\ left' = left
               /\ last' = [op |-> "current", ret |-> None, n |-> 0]
    /\ UNCHANGED <<sched, ran>>

NextD == DSchedule \/ SDrive \/ MDrive

(* The states in which a turn of the loop changes something: a record is   *)
(* returned (and ticked), or the call itself changes the scheduler.        *)
SDriveEnabled ==
    /\ Len(levels) = 0
    /\ \E c \in {current(sched)} :
          \/ is_some(c.ret)
          \/ c.s # sched
          \/ last # [op |-> "current", ret |-> None, n |-> 0]

MDriveEnabled ==
    /\ Len(levels) > 0
    /\ \E c \in {current_with_key(levels)} :
          \/ is_some(c.ret)
          \/ c.levels # levels
          \/ last # [op |-> "current", ret |-> None, n |-> 0]

(* The loop keeps running: WF_vars(SDrive) /\ WF_vars(MDrive), with        *)
(* ENABLED <<SDrive>>_vars and ENABLED <<MDrive>>_vars written out.         *)
DriverFairness ==
    /\ ([]<>(~SDriveEnabled) \/ []<><<SDrive>>_vars)
    /\ ([]<>(~MDriveEnabled) \/ []<><<MDrive>>_vars)

SpecD == InitD /\ [][NextD]_vars /\ DriverFairness

----------------------------------------------------------------------------
(* The same loop over a MultilevelQueue that has a round-robin level above *)
(* its last level, counting the ticks each process is given at each level. *)

QueueConfigs ==
    {with_level(with_level(MultilevelQueueNew, RoundRobin(q)), p) :
        q \in 0 .. MaxLevelQuantum, p \in LevelPolicies}
    \cup
    {with_level(with_level(with_level(MultilevelQueueNew,
        RoundRobin(a)), RoundRobin(b)), FirstComeFirstServe) :
        a \in 1 .. MaxQuantum, b \in 1 .. MaxQuantum}

(* The time a process needs to use up the quantum of every level above the *)
(* last and still have work left.                                          *)
RECURSIVE QuantaAbove(_, _)
QuantaAbove(lv, n) ==
    IF n = 0 THEN 0 ELSE lv[n].policy.quantum + QuantaAbove(lv, n - 1)
TimeToCross(lv) == 1 + QuantaAbove(lv, Len(lv) - 1)

InitT ==
    /\ levels \in QueueConfigs
    /\ sched = SchedulerNew(FirstComeFirstServe)
    /\ left = <<>>
    /\ last = NoCall
    /\ ran = <<>>

TSchedule ==
    /\ Len(left) < MaxQueueAdmissions
    /\ \E p \in Inputs(PoliciesOf(levels), LevelPriorities, 0 .. TimeToCross(levels)) :
          /\ levels' = MultilevelSchedule(levels, p)
          /\ left' = Append(left, p.time_units)
          /\ last' = [op |-> "schedule", ret |-> None, n |-> 0]
          /\ ran' = Append(ran, [k \in 1 .. Len(levels) |-> 0])
    /\ UNCHANGED sched

(* if let Some((_, r)) = queue.current_with_key() { r.tick() }             *)
TDrive ==
    /\ \E c \in {current_with_key(levels)} :
          IF is_some(c.ret)
          THEN LET key == unwrap(c.ret)[1]
                   r == tick(unwrap(c.ret)[2])
               IN /\ levels' = [c.levels EXCEPT ![key + 1].scheduled = Some(r)]
                  /\ left' = [left EXCEPT ![r.proc.uid] = r.proc.time_units]
                  /\ last' = [op |-> "tick", ret |-> c.ret, n |-> 1]
                  /\ ran' = [ran EXCEPT ![r.proc.uid][key + 1] = @ + 1]
          ELSE /\ levels' = c.levels
               /\ left' = left
               /\ last' = [op |-> "current", ret |-> None, n |-> 0]
               /\ ran' = ran
    /\ UNCHANGED sched

NextT == TSchedule \/ TDrive

SpecT == InitT /\ [][NextT]_vars

----------------------------------------------------------------------------
(* The loop of scheduler_rr over a stand-alone round-robin Scheduler       *)
(* (feedback = false): current before every tick.  Here ran[u] = <<t>>,    *)
(* t the ticks process u has been given since it last became current.      *)

InitR ==
    /\ sched \in {SchedulerNew(RoundRobin(q)) : q \in Quanta}
    /\ levels = MultilevelQueueNew
    /\ left = <<>>
    /\ last = NoCall
    /\ ran = <<>>

RSchedule ==
    /\ Len(left) < MaxQueueAdmissions
    /\ \E p \in Inputs({sched.policy}, {0}, Times) :
          /\ sched' = schedule(sched, p).s
          /\ left' = Append(left, p.time_units)
          /\ last' = [op |-> "schedule", ret |-> None, n |-> 0]
          /\ ran' = Append(ran, <<0>>)
    /\ UNCHANGED levels

(* The current slot is taken by a record that fetch_current replaces.      *)
TurnEnds(s) ==
    /\ is_some(s.scheduled)
    /\ \/ unwrap(s.scheduled).proc.time_units = 0
       \/ unwrap(s.scheduled).lifetime <= 0

(* if let Some(r) = scheduler.current() { r.tick() }                       *)
RDrive ==
    /\ \E c \in {current(sched)} :
          IF is_some(c.ret)
          THEN LET r == tick(unwrap(c.ret))
               IN /\ sched' = [c.s EXCEPT !.scheduled = Some(r)]
                  /\ left' = [left EXCEPT ![r.proc.uid] = r.proc.time_units]
                  /\ last' = [op |-> "tick", ret |-> c.ret, n |-> 1]
                  /\ ran' = [ran EXCEPT ![r.proc.uid] =
                                 IF TurnEnds(sched) THEN <<1>> ELSE <<@[1] + 1>>]
          ELSE /\ sched' = c.s
               /\ left' = left
               /\ last' = [op |-> "current", ret |-> None, n |-> 0]
               /\ ran' = ran
    /\ UNCHANGED levels

NextR == RSchedule \/ RDrive

SpecR == InitR /\ [][NextR]_vars

----------------------------------------------------------------------------
(* The loop of a driver that looks at every record current returns, over a *)
(* stand-alone Scheduler (feedback = false) of any policy.  Here           *)
(* ran[u] = <<1>> once current has returned process u, <<0>> before.       *)

InitO == InitS

OSchedule ==
    /\ Len(left) < MaxAdmissions
    /\ \E p \in Inputs({sched.policy}, Priorities, Times) :
          /\ sched' = schedule(sched, p).s
          /\ left' = Append(left, p.time_units)
          /\ last' = [op |-> "schedule", ret |-> None, n |-> 0]
          /\ ran' = Append(ran, <<0>>)
    /\ UNCHANGED levels

(* if let Some(r) = scheduler.current() { look at r; r.tick() }            *)
ODrive ==
    /\ \E c \in {current(sched)} :
          IF is_some(c.ret)
          THEN LET r == tick(unwrap(c.ret))
               IN /\ sched' = [c.s EXCEPT !.scheduled = Some(r)]
                  /\ left' = [left EXCEPT ![r.proc.uid] = r.proc.time_units]
                  /\ last' = [op |-> "tick", ret |-> c.ret, n |-> 1]
                  /\ ran' = [ran EXCEPT ![r.proc.uid] = <<1>>]
          ELSE /\ sched' = c.s
               /\ left' = left
               /\ last' = [op |-> "current", ret |-> None, n |-> 0]
               /\ ran' = ran
    /\ UNCHANGED levels

NextO == OSchedule \/ ODrive

SpecO == InitO /\ [][NextO]_vars

----------------------------------------------------------------------------
(* The same loop over a stand-alone ShortestRemainingTime(2.0) Scheduler:  *)
(* with alpha = 2 a retirement gives tau = 2 * static_time_units - tau,    *)
(* which is negative for a short process whose id had the default.         *)

InitN ==
    /\ sched = SchedulerNew(ShortestRemainingTime(4))
    /\ levels = MultilevelQueueNew
    /\ left = <<>>
    /\ last = NoCall
    /\ ran = <<>>

NSchedule ==
    /\ Len(left) < MaxSrtAdmissions
    /\ \E p \in Inputs({sched.policy}, {0}, 0 .. MaxSrtTime) :
          /\ sched' = schedule(sched, p).s
          /\ left' = Append(left, p.time_units)
          /\ last' = [op |-> "schedule", ret |-> None, n |-> 0]
    /\ UNCHANGED <<levels, ran>>

(* if let Some(r) = scheduler.current() { r.tick() }                       *)
NDrive ==
    /\ \E c \in {current(sched)} :
          IF is_some(c.ret)
          THEN LET r == tick(unwrap(c.ret))
               IN /\ sched' = [c.s EXCEPT !.scheduled = Some(r)]
                  /\ left' = [left EXCEPT ![r.proc.uid] = r.proc.time_units]
                  /\ last' = [op |-> "tick", ret |-> c.ret, n |-> 1]
          ELSE /\ sched' = c.s
               /\ left' = left
               /\ last' = [op |-> "current", ret |-> None, n |-> 0]
    /\ UNCHANGED <<levels, ran>>

NextN == NSchedule \/ NDrive

SpecN == InitN /\ [][NextN]_vars

----------------------------------------------------------------------------
(* Where the admitted processes are.                                       *)

(* The records a Scheduler holds: the current slot, then the ready set.    *)
Records(s) == s.scheduled \o s.queue

(* The positions (level, index) at which process u is resident.            *)
Places(lv, u) ==
    {x \in (1 .. Len(lv)) \X (1 .. Len(left) + 1) :
        /\ x[2] <= Len(Records(lv[x[1]]))
        /\ Records(lv[x[1]])[x[2]].proc.uid = u}

Admitted == 1 .. Len(left)

(* C1: after every call on a MultilevelQueue, each admitted process with   *)
(* time_units > 0 is resident in exactly one place (the current slot or    *)
(* the ready set of exactly one level), and none is resident twice.        *)
C1_ResidentExactlyOnce ==
    \A u \in Admitted :
        /\ Cardinality(Places(levels, u)) <= 1
        /\ left[u] > 0 => Cardinality(Places(levels, u)) = 1

----------------------------------------------------------------------------
(* What the last call reported.                                            *)

Reported == last.op \in {"current", "tick"} /\ is_some(last.ret)
ReportedKey == unwrap(last.ret)[1]
ReportedRecord == unwrap(last.ret)[2]

(* C2: whenever current_with_key returns Some((k, r)), r is the current    *)
(* record of level k and every level j < k has no current record and an    *)
(* empty ready set (the driver may since have ticked r last.n times).      *)
C2_ReportsHighestLevelWithWork ==
    Reported =>
        /\ ReportedKey + 1 \in 1 .. Len(levels)
        /\ levels[ReportedKey + 1].scheduled = Some(tick_n(ReportedRecord, last.n))
        /\ \A j \in 1 .. ReportedKey : Records(levels[j]) = <<>>

(* A record is reported from level 1 while level 0 is empty.               *)
C2_Witness ==
    /\ Reported
    /\ ReportedKey = 1
    /\ Records(levels[1]) = <<>>
    /\ levels[2].scheduled = Some(tick_n(ReportedRecord, last.n))

(* C3: current_with_key returns None only if every level has no current    *)
(* record and an empty ready set.                                          *)
C3_NoneOnlyWhenEmpty ==
    (last.op = "current" /\ is_none(last.ret)) =>
        \A j \in 1 .. Len(levels) : Records(levels[j]) = <<>>

----------------------------------------------------------------------------
(* A stand-alone Scheduler (feedback = false).                             *)

(* The indices of Records(s) at which process u is resident.               *)
PlacesIn(s, u) == {i \in 1 .. Len(Records(s)) : Records(s)[i].proc.uid = u}
Residents(s) == {Records(s)[i].proc.uid : i \in 1 .. Len(Records(s))}

(* Every admitted record is held at most once, and exactly once while its  *)
(* process has time left.                                                  *)
HeldOnce ==
    \A u \in Admitted :
        /\ Cardinality(PlacesIn(sched, u)) <= 1
        /\ left[u] > 0 => Cardinality(PlacesIn(sched, u)) = 1

(* A record that leaves was the current record with time_units = 0.        *)
LeavesOnlyFinished ==
    \A u \in Residents(sched) \ Residents(sched') :
        /\ is_some(sched.scheduled)
        /\ unwrap(sched.scheduled).proc.uid = u
        /\ unwrap(sched.scheduled).proc.time_units = 0

(* C4: with feedback = false, under each of the five policies, a record    *)
(* leaves the scheduler only by being retired from the current slot with   *)
(* time_units = 0; every other admitted record is the current record or    *)
(* appears exactly once in the ready set.                                  *)
C4_NothingLostOrDuplicated == [](HeldOnce) /\ [][LeavesOnlyFinished]_vars

(* A finished record has been retired while an admission-preempted record  *)
(* waits in the ready set behind a current one.                            *)
C4_Witness ==
    /\ sched.policy.kind \in {"PreemptivePriority", "ShortestRemainingTime"}
    /\ \E u \in Admitted : u \notin Residents(sched) /\ left[u] = 0
    /\ is_some(sched.scheduled)
    /\ \E i \in 1 .. Len(sched.queue) :
          sched.queue[i].proc.time_units < sched.queue[i].proc.static_time_units

----------------------------------------------------------------------------
(* The driver loop.                                                        *)

AllRetired ==
    /\ \A u \in Admitted : left[u] = 0
    /\ Records(sched) = <<>>
    /\ \A j \in 1 .. Len(levels) : Records(levels[j]) = <<>>
    /\ is_none(current(sched).ret)
    /\ is_none(current_with_key(levels).ret)

(* C5: with finitely many admissions and a driver that repeatedly calls    *)
(* current (current_with_key) and ticks the returned record once, every    *)
(* admitted process eventually reaches time_units = 0 and is retired, and  *)
(* from then on current returns None.                                      *)
C5_EveryProcessCompletes == <>[]AllRetired

(* The queue of the tests has run three processes to completion, at least  *)
(* one of them through the last level, and reports None.                   *)
C5_Witness ==
    /\ levels # <<>>
    /\ Len(left) = MaxAdmissions
    /\ \A u \in Admitted : left[u] = 0
    /\ \A j \in 1 .. Len(levels) : Records(levels[j]) = <<>>
    /\ DOMAIN levels[Len(levels)].srt_time_table # {}
    /\ last = [op |-> "current", ret |-> None, n |-> 0]

----------------------------------------------------------------------------
(* Quantum expiry in a MultilevelQueue.                                    *)

(* The current record of scheduler s has used up its quantum and has work  *)
(* left: the test of fetch_current's round-robin branch.                   *)
Expired(s) ==
    /\ s.policy.kind = "RoundRobin"
    /\ is_some(s.scheduled)
    /\ unwrap(s.scheduled).lifetime <= 0
    /\ unwrap(s.scheduled).proc.time_units > 0

(* Scheduler s holds a record of process p (all fields of p as given).     *)
Holds(s, p) == \E i \in 1 .. Len(Records(s)) : Records(s)[i].proc = p

(* C6: when current_with_key finds the current record of a RoundRobin      *)
(* level i < N-1 expired with time_units > 0, the process is no longer in  *)
(* level i after the call and is in level i+1 with its time_units and      *)
(* static_time_units unchanged.                                            *)
C6_DemotedToNextLevel ==
    \A i \in 1 .. Len(levels) - 1 :
        Expired(levels[i]) =>
            LET p == unwrap(levels[i].scheduled).proc
                after == current_with_key(levels).levels
            IN /\ p.uid \notin Residents(after[i])
               /\ Holds(after[i + 1], p)

(* C8: when the current record of a RoundRobin last level expires with     *)
(* time_units > 0, it is re-inserted into the last level with time_units   *)
(* unchanged: as current with a full quantum if the level was otherwise    *)
(* empty, else at the back of the ready set; it is in no other level and   *)
(* is still in the last level when current_with_key returns.               *)
C8_LastLevelReinserts ==
    LET N == Len(levels)
        before == RetireRange(levels, 0, N - 1)
        step == RetireStep(before, N - 1)
        after == current_with_key(levels).levels
    IN Expired(before[N]) =>
          LET r == unwrap(before[N].scheduled)
              q == before[N].queue
              s == step[N]
          IN /\ \A j \in 1 .. N - 1 : step[j] = before[j]
             /\ q = <<>> =>
                   /\ s.queue = <<>>
                   /\ is_some(s.scheduled)
                   /\ unwrap(s.scheduled).proc = r.proc
                   /\ unwrap(s.scheduled).lifetime = s.policy.quantum
             /\ q # <<>> =>
                   /\ Len(s.queue) = Len(q)
                   /\ s.queue[Len(q)].proc = r.proc
                   /\ \A k \in 1 .. Len(q) - 1 : \E m \in 1 .. Len(q) : s.queue[k] = q[m]
                   /\ r.proc.uid \notin Residents([s EXCEPT !.queue = SubSeq(@, 1, Len(q) - 1)])
             /\ \A j \in 1 .. N - 1 : r.proc.uid \notin Residents(after[j])
             /\ Holds(after[N], r.proc)

----------------------------------------------------------------------------
(* The ticks a process is given at a round-robin level above the last.     *)

(* The levels above the last that are RoundRobin(q) with q >= least.       *)
RoundRobinAbove(least) ==
    {k \in 1 .. Len(levels) - 1 :
        /\ levels[k].policy.kind = "RoundRobin"
        /\ levels[k].policy.quantum >= least}

(* No process has been given more than q ticks at such a level.            *)
TicksWithinQuantum(least) ==
    \A k \in RoundRobinAbove(least) : \A u \in Admitted :
        ran[u][k] <= levels[k].policy.quantum

(* A resident of such a level that has been given q ticks there and has    *)
(* work left is, after the next current_with_key call, in no level at or   *)
(* above it, and is not reported from there.                               *)
MovesDown(least) ==
    \A k \in RoundRobinAbove(least) : \A u \in Admitted :
        (/\ ran[u][k] >= levels[k].policy.quantum
         /\ left[u] > 0
         /\ u \in Residents(levels[k])
         /\ last'.op # "schedule")
        => /\ \A j \in 1 .. k : u \notin Residents(levels'[j])
           /\ (is_some(last'.ret) /\ unwrap(last'.ret)[2].proc.uid = u)
                 => unwrap(last'.ret)[1] >= k

(* C7: with current_with_key called before every single tick, a process is *)
(* given at most q ticks in total while at a RoundRobin(q) level above the *)
(* last, and once it has had q ticks with work remaining the next call     *)
(* puts it (and reports it) below that level.                              *)
C7_AtMostQuantumTicks == [](TicksWithinQuantum(0)) /\ [][MovesDown(0)]_vars

(* C7 as amended: the same for RoundRobin(q) levels with q >= 1.           *)
C7_AtMostQuantumTicksPositive == [](TicksWithinQuantum(1)) /\ [][MovesDown(1)]_vars

(* A process is half way through its quantum of 2 at level 1 while the     *)
(* driver ticks another process, admitted later, at level 0.               *)
C7_Witness ==
    /\ Len(levels) = 3
    /\ levels[2].policy = RoundRobin(2)
    /\ last.op = "tick"
    /\ unwrap(last.ret)[1] = 0
    /\ \E u \in Admitted :
          /\ is_some(levels[2].scheduled)
          /\ unwrap(levels[2].scheduled).proc.uid = u
          /\ ran[u][2] = 1
          /\ unwrap(last.ret)[2].proc.uid > u

----------------------------------------------------------------------------
(* Dispatch order of a stand-alone Scheduler.                              *)

(* The current record has finished and the ready set is not empty: the     *)
(* next fetch_current retires it and installs a replacement.               *)
RetirementDue ==
    /\ is_some(sched.scheduled)
    /\ unwrap(sched.scheduled).proc.time_units = 0
    /\ sched.queue # <<>>

(* The record that retirement installs.                                    *)
Replacement == unwrap(fetch_current(sched).s.scheduled)

(* C9: under FirstComeFirstServe processes become current in the order of  *)
(* their admission: the current record was admitted before every ready     *)
(* record and after every process that has left, and a retirement installs *)
(* the ready record admitted earliest.                                     *)
C9_FirstComeFirstServeOrder ==
    sched.policy.kind = "FirstComeFirstServe" =>
        /\ \A u \in Residents(sched) :
              /\ is_some(sched.scheduled)
              /\ unwrap(sched.scheduled).proc.uid <= u
              /\ \A v \in Admitted \ Residents(sched) : v < u
        /\ RetirementDue =>
              /\ is_some(fetch_current(sched).s.scheduled)
              /\ \A i \in 1 .. Len(sched.queue) :
                    Replacement.proc.uid <= sched.queue[i].proc.uid
              /\ \E i \in 1 .. Len(sched.queue) :
                    /\ Replacement.proc = sched.queue[i].proc
                    /\ fetch_current(sched).s.queue = RemoveAt(sched.queue, i)

(* Under FirstComeFirstServe a retirement is due with two records ready,   *)
(* the later of them admitted after the current record had finished.       *)
C9_Witness ==
    /\ sched.policy.kind = "FirstComeFirstServe"
    /\ RetirementDue
    /\ Len(sched.queue) = 2
    /\ last.op = "schedule"
    /\ left[1] = 0

(* C10: under Priority and PreemptivePriority a retirement installs the    *)
(* ready record nearest the front among those of minimal priority value.   *)
C10_ReplacementHasMinimalPriority ==
    (sched.policy.kind \in {"Priority", "PreemptivePriority"} /\ RetirementDue) =>
        /\ is_some(fetch_current(sched).s.scheduled)
        /\ \E i \in 1 .. Len(sched.queue) :
              /\ Replacement.proc = sched.queue[i].proc
              /\ fetch_current(sched).s.queue = RemoveAt(sched.queue, i)
              /\ \A j \in 1 .. Len(sched.queue) :
                    sched.queue[j].proc.priority >= sched.queue[i].proc.priority
              /\ \A j \in 1 .. i - 1 :
                    sched.queue[j].proc.priority > sched.queue[i].proc.priority

(* Under Priority a retirement is due while the ready record of minimal    *)
(* priority value was admitted last and stands behind another.             *)
C10_Witness ==
    /\ sched.policy.kind = "Priority"
    /\ RetirementDue
    /\ Len(sched.queue) = 2
    /\ sched.queue[1].proc.uid < sched.queue[2].proc.uid
    /\ sched.queue[1].proc.priority > sched.queue[2].proc.priority

----------------------------------------------------------------------------
(* Admission to a stand-alone Scheduler.                                   *)

(* The processes the next schedule call may be given.                      *)
Admissible == Inputs({sched.policy}, Priorities, Times)

(* Scheduler `after` has the current record of sched and the ready set of  *)
(* sched with one record for process p appended at the back.               *)
QueuedBehind(after, p) ==
    /\ after.scheduled = sched.scheduled
    /\ Len(after.queue) = Len(sched.queue) + 1
    /\ SubSeq(after.queue, 1, Len(sched.queue)) = sched.queue
    /\ after.queue[Len(after.queue)].proc = p

(* C11: under PreemptivePriority, schedule called while a record is        *)
(* current makes the new process current if and only if its priority value *)
(* is strictly less than the current record's; otherwise the new process   *)
(* is appended to the ready set and the current record is unchanged.       *)
C11_PreemptsIffMoreUrgent ==
    (sched.policy.kind = "PreemptivePriority" /\ is_some(sched.scheduled)) =>
        \A p \in Admissible :
            IF p.priority < unwrap(sched.scheduled).proc.priority
            THEN /\ is_some(schedule(sched, p).s.scheduled)
                 /\ unwrap(schedule(sched, p).s.scheduled).proc = p
            ELSE QueuedBehind(schedule(sched, p).s, p)

(* The last admission preempted, and the record now current has priority 0, *)
(* so that the next admission can be more urgent, equal or less urgent.    *)
C11_Witness ==
    /\ sched.policy.kind = "PreemptivePriority"
    /\ last.op = "schedule"
    /\ Len(left) = 2
    /\ is_some(sched.scheduled)
    /\ unwrap(sched.scheduled).proc.uid = 2
    /\ unwrap(sched.scheduled).proc.priority = 0
    /\ Len(left) < MaxAdmissions

(* C12: under PreemptivePriority the current record's priority value is at *)
(* most that of every record in the ready set.                             *)
C12_CurrentIsMostUrgent ==
    (sched.policy.kind = "PreemptivePriority" /\ is_some(sched.scheduled)) =>
        \A i \in 1 .. Len(sched.queue) :
            unwrap(sched.scheduled).proc.priority <= sched.queue[i].proc.priority

(* A process has been retired, and the current record was admitted after a *)
(* less urgent record that is still ready.                                 *)
C12_Witness ==
    /\ sched.policy.kind = "PreemptivePriority"
    /\ is_some(sched.scheduled)
    /\ \E u \in Admitted : u \notin Residents(sched)
    /\ \E i \in 1 .. Len(sched.queue) :
          /\ sched.queue[i].proc.uid < unwrap(sched.scheduled).proc.uid
          /\ sched.queue[i].proc.priority > unwrap(sched.scheduled).proc.priority

----------------------------------------------------------------------------
(* Round robin without feedback.                                           *)

(* The process ids of the ready set, front first.                          *)
QueueIds(s) == [i \in 1 .. Len(s.queue) |-> s.queue[i].proc.uid]

(* The countdown of the current record is its quantum less the ticks of    *)
(* its present turn.                                                       *)
LifetimeCountsTurn ==
    is_some(sched.scheduled) =>
        LET r == unwrap(sched.scheduled)
            rest == sched.policy.quantum - ran[r.proc.uid][1]
        IN r.lifetime = IF rest > 0 THEN rest ELSE 0

(* A current record that has had its q ticks and has work left is, at the  *)
(* next current call with a non-empty ready set, replaced by the ready     *)
(* record queued earliest and put behind the others, its process as it was. *)
TurnOver ==
    (/\ is_some(sched.scheduled)
     /\ ran[unwrap(sched.scheduled).proc.uid][1] >= sched.policy.quantum
     /\ unwrap(sched.scheduled).proc.time_units > 0
     /\ sched.queue # <<>>)
    => LET after == fetch_current(sched).s
       IN /\ is_some(after.scheduled)
          /\ unwrap(after.scheduled).proc = sched.queue[1].proc
          /\ \A i \in 1 .. Len(sched.queue) :
                sched.queue[1].schedule_time <= sched.queue[i].schedule_time
          /\ Len(after.queue) = Len(sched.queue)
          /\ \A i \in 1 .. Len(sched.queue) - 1 :
                after.queue[i].proc = sched.queue[i + 1].proc
          /\ after.queue[Len(after.queue)].proc = unwrap(sched.scheduled).proc

(* A record leaves the ready set only from the front, to become current;   *)
(* the others keep their order and newcomers stand behind them.            *)
TurnsInOrder ==
    LET old == QueueIds(sched)
        new == QueueIds(sched')
    IN \E k \in 0 .. 1 :
          /\ k <= Len(old)
          /\ Len(new) >= Len(old) - k
          /\ SubSeq(new, 1, Len(old) - k) = SubSeq(old, k + 1, Len(old))
          /\ k = 1 => /\ is_some(sched'.scheduled)
                      /\ unwrap(sched'.scheduled).proc.uid = old[1]
          /\ k = 0 => \A i \in 1 .. Len(old) :
                         sched'.scheduled # <<>> =>
                             unwrap(sched'.scheduled).proc.uid # old[i]

(* C13: under RoundRobin(q) without feedback and with current called       *)
(* before every tick, a current record that has received q ticks and has   *)
(* time_units > 0 is replaced by the earliest-queued ready record and      *)
(* re-admitted at the back of the ready set with its remaining time_units, *)
(* and runs again only after the records that were ready have had a turn.  *)
C13_ExpiredGoesToTheBack ==
    [](LifetimeCountsTurn /\ TurnOver) /\ [][TurnsInOrder]_vars

(* Under RoundRobin(2) process 1 has used a quantum of 2, has work left    *)
(* and stands last in a ready set of two while a later process runs.       *)
C13_Witness ==
    /\ sched.policy = RoundRobin(2)
    /\ last.op = "tick"
    /\ Len(sched.queue) = 2
    /\ sched.queue[2].proc.uid = 1
    /\ sched.queue[2].proc.time_units > 0
    /\ ran[1] = <<2>>
    /\ unwrap(sched.scheduled).proc.uid = 2

----------------------------------------------------------------------------
(* Shortest remaining time: the prediction table.                          *)

(* The step is a current, tick or finish call that retires the record that *)
(* was current before it.                                                  *)
Retires ==
    /\ last'.op # "schedule"
    /\ is_some(sched.scheduled)
    /\ unwrap(sched.scheduled).proc.uid \notin Residents(sched')

(* Every entry of the table after a step is the entry before it (the       *)
(* default for an id first admitted in the step), except that a retirement *)
(* replaces the entry of the retired record's id, once, by                 *)
(* alpha * static_time_units + (1 - alpha) * entry.                         *)
TableLearns ==
    sched.policy.kind = "ShortestRemainingTime" =>
        \A id \in DOMAIN sched'.srt_time_table :
            LET fin == unwrap(sched.scheduled).proc
                a2 == sched.policy.alpha2
            IN IF Retires /\ fin.id = id
               THEN 2 * sched'.srt_time_table[id] =
                        a2 * fin.static_time_units * Scale
                            + (2 - a2) * sched.srt_time_table[id]
               ELSE IF id \in DOMAIN sched.srt_time_table
               THEN sched'.srt_time_table[id] = sched.srt_time_table[id]
               ELSE sched'.srt_time_table[id] = INITIAL_TAU * Scale

(* A process that schedule installs as current carries the table's entry   *)
(* for its id.                                                             *)
AdmissionSeesTable ==
    sched.policy.kind = "ShortestRemainingTime" =>
        \A p \in Admissible :
            LET after == schedule(sched, p).s
            IN unwrap(after.scheduled).proc = p =>
                   unwrap(after.scheduled).estimated_remaining_time
                       = after.srt_time_table[p.id]

(* C14: under ShortestRemainingTime(alpha) each retirement of a finished   *)
(* record with id p replaces the table entry of p by                       *)
(* alpha * static_time_units + (1 - alpha) * old entry, exactly once, and  *)
(* a later admission of the same id sees the learned value.                *)
C14_RetirementUpdatesPrediction == [](AdmissionSeesTable) /\ [][TableLearns]_vars

(* alpha = 0.5, default 10, burst 3: the entry of id 0 is 6.5 and a second *)
(* process of id 0, just admitted, is current with that estimate.          *)
C14_Witness ==
    /\ sched.policy = ShortestRemainingTime(1)
    /\ last.op = "schedule"
    /\ Len(left) = 2
    /\ left[1] = 0
    /\ 0 \in DOMAIN sched.srt_time_table
    /\ sched.srt_time_table[0] * 2 = 13 * Scale
    /\ is_some(sched.scheduled)
    /\ unwrap(sched.scheduled).proc.uid = 2
    /\ unwrap(sched.scheduled).proc.id = 0
    /\ unwrap(sched.scheduled).estimated_remaining_time * 2 = 13 * Scale

----------------------------------------------------------------------------
(* Shortest remaining time: admission.                                     *)

(* schedule called while a record is current makes the new process current *)
(* exactly when the current record's estimate exceeds the table's entry    *)
(* for the new id (the default, if the id is new), and otherwise queues it *)
(* behind the others and leaves the current record alone.                  *)
PreemptsIffShorter ==
    (sched.policy.kind = "ShortestRemainingTime" /\ is_some(sched.scheduled)) =>
        \A p \in Admissible :
            LET after == schedule(sched, p).s
                entry == IF p.id \in DOMAIN sched.srt_time_table
                         THEN sched.srt_time_table[p.id]
                         ELSE INITIAL_TAU * Scale
            IN IF unwrap(sched.scheduled).estimated_remaining_time > entry
               THEN /\ is_some(after.scheduled)
                    /\ unwrap(after.scheduled).proc = p
               ELSE QueuedBehind(after, p)

(* The estimate of the current record is the table's entry for its id when *)
(* it was installed, less one for every tick it has been given since.      *)
EstimateIsLive ==
    (sched.policy.kind = "ShortestRemainingTime" /\ is_some(sched'.scheduled)) =>
        LET r == unwrap(sched'.scheduled)
            ticks == IF last'.op = "tick" THEN last'.n ELSE 0
        IN IF is_some(sched.scheduled)
              /\ unwrap(sched.scheduled).proc.uid = r.proc.uid
           THEN r.estimated_remaining_time
                    = unwrap(sched.scheduled).estimated_remaining_time - ticks * Scale
           ELSE r.estimated_remaining_time
                    = sched'.srt_time_table[r.proc.id] - ticks * Scale

(* C15: under ShortestRemainingTime, schedule called while a record is     *)
(* current makes the new process current if and only if the current        *)
(* record's live estimate (table value at installation minus the ticks     *)
(* since) is strictly greater than the table entry for the new id;         *)
(* otherwise the new process is appended to the ready set.                 *)
C15_PreemptsIffShorterPrediction ==
    [](PreemptsIffShorter) /\ [][EstimateIsLive]_vars

(* The run of scheduler_srt_preemption: id 0 has learned 6.5, a process of *)
(* id 1 was current with the default 10, and a process of id 0 admitted    *)
(* last has taken its place.                                               *)
C15_Witness ==
    /\ sched.policy = ShortestRemainingTime(1)
    /\ last.op = "schedule"
    /\ Len(left) = 3
    /\ is_some(sched.scheduled)
    /\ unwrap(sched.scheduled).proc.uid = 3
    /\ unwrap(sched.scheduled).proc.id = 0
    /\ unwrap(sched.scheduled).estimated_remaining_time * 2 = 13 * Scale
    /\ 1 \in DOMAIN sched.srt_time_table
    /\ left[2] > 0

(* C16: a process admitted under ShortestRemainingTime has its record's    *)
(* estimated_remaining_time initialized from the table's entry for its id, *)
(* both when it becomes current at once and when it is appended to the     *)
(* ready set.                                                              *)
C16_AdmittedEstimateFromTable ==
    sched.policy.kind = "ShortestRemainingTime" =>
        \A p \in Admissible :
            LET after == schedule(sched, p).s
            IN \A i \in 1 .. Len(Records(after)) :
                   Records(after)[i].proc = p =>
                       Records(after)[i].estimated_remaining_time
                           = after.srt_time_table[p.id]

----------------------------------------------------------------------------
(* Admission under the policies that never preempt.                        *)

(* C17: under FirstComeFirstServe, Priority and RoundRobin a schedule call *)
(* made while a record is current leaves the current slot exactly as it    *)
(* was (the same record, with its time_units, lifetime and estimate) and   *)
(* appends the new process at the back of the ready set.                   *)
C17_NoPreemptionOnAdmission ==
    (/\ sched.policy.kind \in {"FirstComeFirstServe", "Priority", "RoundRobin"}
     /\ is_some(sched.scheduled))
    => \A p \in Admissible : QueuedBehind(schedule(sched, p).s, p)

(* Under Priority the last admission was more urgent than the current      *)
(* record, which has been ticked, and stands at the back of the ready set. *)
C17_Witness ==
    /\ sched.policy.kind = "Priority"
    /\ last.op = "schedule"
    /\ Len(sched.queue) = 2
    /\ sched.queue[2].proc.uid = Len(left)
    /\ sched.queue[2].proc.priority < unwrap(sched.scheduled).proc.priority
    /\ unwrap(sched.scheduled).proc.time_units
          < unwrap(sched.scheduled).proc.static_time_units

----------------------------------------------------------------------------
(* What schedule hands back.                                               *)

(* Scheduler `after` has a current record other than the one of sched: the *)
(* admission displaced the record that was current.                        *)
Preempted(after) ==
    /\ is_some(sched.scheduled)
    /\ is_some(after.scheduled)
    /\ unwrap(after.scheduled).proc.uid # unwrap(sched.scheduled).proc.uid

(* C18: schedule returns Some(record) exactly when feedback is true and    *)
(* the admission preempted the current record, which happens only under    *)
(* PreemptivePriority and ShortestRemainingTime, and the record returned   *)
(* is the displaced former current; in every other case it returns None.   *)
C18_ReturnsDisplacedOnlyOnFeedbackPreemption ==
    \A p \in Admissible :
        LET Returns(r) ==
                IF sched.feedback /\ Preempted(r.s)
                THEN /\ sched.policy.kind
                          \in {"PreemptivePriority", "ShortestRemainingTime"}
                     /\ r.ret = Some(unwrap(sched.scheduled))
                ELSE r.ret = None
        IN Returns(schedule(sched, p))

(* The last admission handed back a record that had been ticked, and the   *)
(* process it admitted is current.                                         *)
C18_Witness ==
    /\ sched.feedback
    /\ last.op = "schedule"
    /\ is_some(last.ret)
    /\ unwrap(last.ret).proc.time_units < unwrap(last.ret).proc.static_time_units
    /\ is_some(sched.scheduled)
    /\ unwrap(sched.scheduled).proc.uid = Len(left)

(* C19: when an admission preempts the current record, then with feedback  *)
(* false the displaced record is appended, unchanged, at the back of the   *)
(* ready set of the same Scheduler, and with feedback true the displaced   *)
(* process is neither current nor in the ready set after the call.         *)
C19_DisplacedRequeuedUnlessFeedback ==
    \A p \in Admissible :
        LET Displaced(after) ==
                Preempted(after) =>
                    IF sched.feedback
                    THEN \A i \in 1 .. Len(Records(after)) :
                            Records(after)[i].proc.uid
                                # unwrap(sched.scheduled).proc.uid
                    ELSE /\ Len(after.queue) = Len(sched.queue) + 1
                         /\ SubSeq(after.queue, 1, Len(sched.queue)) = sched.queue
                         /\ after.queue[Len(after.queue)] = unwrap(sched.scheduled)
        IN Displaced(schedule(sched, p).s)

(* Without feedback the last admission is current, and the record it       *)
(* displaced, ticked but unfinished, stands at the back behind another.    *)
C19_Witness ==
    /\ ~sched.feedback
    /\ sched.policy.kind \in {"PreemptivePriority", "ShortestRemainingTime"}
    /\ last.op = "schedule"
    /\ is_some(sched.scheduled)
    /\ unwrap(sched.scheduled).proc.uid = Len(left)
    /\ Len(sched.queue) = 2
    /\ sched.queue[2].proc.time_units > 0
    /\ sched.queue[2].proc.time_units < sched.queue[2].proc.static_time_units

----------------------------------------------------------------------------
(* ProcessRecord::tick and tick_n.                                         *)

(* One tick of record r: lifetime and time_units go down by one only when  *)
(* positive, the estimate goes down by one always, nothing else changes.   *)
TickOnce(r) ==
    LET Ticked(t) ==
            /\ t.lifetime = IF r.lifetime > 0 THEN r.lifetime - 1 ELSE r.lifetime
            /\ t.proc.time_units = IF r.proc.time_units > 0
                                   THEN r.proc.time_units - 1
                                   ELSE r.proc.time_units
            /\ t.estimated_remaining_time = r.estimated_remaining_time - Scale
            /\ t.proc.static_time_units = r.proc.static_time_units
            /\ t.lifetime >= 0
            /\ t.proc.time_units >= 0
    IN Ticked(tick(r))

(* tick_n for n = 0 .. 3 is that many ticks one after the other.           *)
TickNIsRepeatedTick(r) ==
    /\ tick_n(r, 0) = r
    /\ tick_n(r, 1) = tick(r)
    /\ tick_n(r, 2) = tick(tick(r))
    /\ tick_n(r, 3) = tick(tick(tick(r)))
    /\ \A n \in 0 .. 3 :
          /\ tick_n(r, n).lifetime >= 0
          /\ tick_n(r, n).proc.time_units >= 0
          /\ tick_n(r, n).proc.static_time_units = r.proc.static_time_units

TicksAsSpecified ==
    \A i \in 1 .. Len(Records(sched)) :
        /\ Records(sched)[i].lifetime >= 0
        /\ Records(sched)[i].proc.time_units >= 0
        /\ TickOnce(Records(sched)[i])
        /\ TickNIsRepeatedTick(Records(sched)[i])

(* The driver's tick_n(n) on the current record takes n from lifetime and  *)
(* time_units, stopping at zero, and n from the estimate.                  *)
DriverTick ==
    last'.op = "tick" =>
        /\ is_some(sched'.scheduled)
        /\ LET Ticked(b, a) ==
                   /\ a.lifetime = IF b.lifetime > last'.n
                                   THEN b.lifetime - last'.n ELSE 0
                   /\ a.proc.time_units = IF b.proc.time_units > last'.n
                                          THEN b.proc.time_units - last'.n ELSE 0
                   /\ a.estimated_remaining_time
                         = b.estimated_remaining_time - last'.n * Scale
                   /\ a.proc.static_time_units = b.proc.static_time_units
           IN Ticked(unwrap(last'.ret), unwrap(sched'.scheduled))

(* No step changes the static_time_units of a process that stays resident. *)
StaticKept ==
    \A i \in 1 .. Len(Records(sched)) : \A j \in 1 .. Len(Records(sched')) :
        Records(sched)[i].proc.uid = Records(sched')[j].proc.uid
            => Records(sched)[i].proc.static_time_units
                  = Records(sched')[j].proc.static_time_units

(* C20: tick decrements lifetime by one only if it is positive, time_units *)
(* by one only if it is positive, and the estimate by one always; lifetime *)
(* and time_units never go below zero, static_time_units never changes,    *)
(* and tick_n(n) leaves the record as n successive ticks do.               *)
C20_TickDecrementsGuarded ==
    [](TicksAsSpecified) /\ [][DriverTick /\ StaticKept]_vars

(* Under RoundRobin(2) the current record had lifetime 2 and one unit of   *)
(* work when tick_n(2) was applied: time_units stopped at zero while the   *)
(* lifetime and the estimate went down by two.                             *)
C20_Witness ==
    /\ last.op = "tick"
    /\ last.n = 2
    /\ is_some(last.ret)
    /\ unwrap(last.ret).lifetime = 2
    /\ unwrap(last.ret).proc.time_units = 1
    /\ is_some(sched.scheduled)
    /\ unwrap(sched.scheduled).lifetime = 0
    /\ unwrap(sched.scheduled).proc.time_units = 0
    /\ unwrap(sched.scheduled).proc.static_time_units = 1
    /\ unwrap(sched.scheduled).estimated_remaining_time
          = unwrap(last.ret).estimated_remaining_time - 2 * Scale

----------------------------------------------------------------------------
(* The accessors when there is nothing to run.                             *)

(* Scheduler s has nothing to run: its ready set is empty and its current  *)
(* slot is empty or holds a finished record.                               *)
NothingSchedulable(s) ==
    /\ Len(s.queue) = 0
    /\ is_some(s.scheduled) => unwrap(s.scheduled).proc.time_units = 0

(* C21: Scheduler::current and MultilevelQueue::current return None when   *)
(* nothing is schedulable, and current_unchecked panics in exactly the     *)
(* states in which current returns None, after the same retirement step;   *)
(* when it does not panic it yields what current yields.                   *)
C21_UncheckedPanicsIffCurrentIsNone ==
    IF Len(levels) = 0
    THEN LET Agree(c, u) ==
                 /\ NothingSchedulable(sched) => is_none(c.ret)
                 /\ u.panic <=> is_none(c.ret)
                 /\ u.s = c.s
                 /\ u.ret = c.ret
         IN Agree(current(sched), current_unchecked(sched))
    ELSE LET Agree(c, u) ==
                 /\ (\A i \in 1 .. Len(levels) : NothingSchedulable(levels[i]))
                       => is_none(c.ret)
                 /\ u.panic <=> is_none(c.ret)
                 /\ u.levels = c.levels
                 /\ u.ret = c.ret
         IN Agree(MultilevelCurrent(levels), MultilevelCurrentUnchecked(levels))

(* The only record a stand-alone Scheduler holds is current and has just   *)
(* been ticked to zero: the slot is full, and current returns None.        *)
C21_Witness ==
    /\ Len(levels) = 0
    /\ last.op = "tick"
    /\ is_some(sched.scheduled)
    /\ unwrap(sched.scheduled).proc.time_units = 0
    /\ unwrap(sched.scheduled).proc.static_time_units > 0
    /\ Len(sched.queue) = 0
    /\ current_unchecked(sched).panic

----------------------------------------------------------------------------
(* MultilevelQueue::schedule and the number of levels.                     *)

(* On a queue without levels schedule panics, while current_with_key and   *)
(* current return None and leave the queue as it is.                       *)
ZeroLevels ==
    Len(levels) = 0 =>
        /\ MultilevelSchedulePanics(levels)
        /\ current_with_key(levels) = [levels |-> levels, ret |-> None]
        /\ MultilevelCurrent(levels) = [levels |-> levels, ret |-> None]

(* On a queue with a level schedule does not panic, and the process it was *)
(* given is resident at level 0 when it returns.                           *)
AtLevelZero ==
    Len(levels) >= 1 =>
        /\ ~MultilevelSchedulePanics(levels)
        /\ \A p \in Inputs(PoliciesOf(levels), LevelPriorities, LevelTimes) :
              LET Inserted(lv) ==
                      \E i \in 1 .. Len(Records(lv[1])) :
                          Records(lv[1])[i].proc = p
              IN Inserted(MultilevelSchedule(levels, p))

(* A schedule call that panics has admitted nothing.                       *)
PanicAdmitsNothing ==
    last'.op = "panic" =>
        /\ Len(levels) = 0
        /\ levels' = levels
        /\ left' = left

(* C22: MultilevelQueue::schedule on a queue with zero levels panics and   *)
(* admits nothing, current and current_with_key on such a queue return     *)
(* None without panicking, and on a queue with at least one level schedule *)
(* always inserts the new process at level 0.                              *)
C22_ScheduleNeedsALevel ==
    [](ZeroLevels /\ AtLevelZero) /\ [][PanicAdmitsNothing]_vars

(* schedule has panicked on a queue without levels.                        *)
C22_Witness ==
    /\ Len(levels) = 0
    /\ last.op = "panic"
    /\ Len(left) = 0

----------------------------------------------------------------------------
(* The displacement cascade of MultilevelQueue::schedule.                  *)

(* Once the loop holds a displaced record, it comes to a call that returns *)
(* None.                                                                   *)
CascadeEnds == (last.op = "cascade") ~> (last.op # "cascade")

(* The record a level displaces is offered to the next level index, or to  *)
(* the same level when that is the last, and is resident nowhere while it  *)
(* is in flight.                                                           *)
OfferedBelow ==
    last'.op = "cascade" =>
        /\ last'.n = IF ran'[1] < Len(levels) - 1 THEN ran'[1] + 1
                     ELSE Len(levels) - 1
        /\ \A k \in 1 .. Len(levels') :
              \A i \in 1 .. Len(Records(levels'[k])) :
                  Records(levels'[k])[i].proc.uid # unwrap(last'.ret).proc.uid

(* C23: the displacement cascade inside MultilevelQueue::schedule always   *)
(* terminates, for one to three levels in every combination of             *)
(* PreemptivePriority and ShortestRemainingTime: each displaced record is  *)
(* offered to the next level index, clamped at the last level, and after   *)
(* finitely many iterations a level's schedule returns None.               *)
C23_CascadeTerminates == CascadeEnds /\ [][OfferedBelow]_vars

(* On a queue of more than one level the last level has displaced a record *)
(* and the loop is about to offer it to that same level.                   *)
C23_Witness ==
    /\ Len(levels) >= 2
    /\ last.op = "cascade"
    /\ last.n = Len(levels) - 1
    /\ ran = <<Len(levels) - 1>>

----------------------------------------------------------------------------
(* Finished records.                                                       *)

(* Process u is in the ready set of Scheduler s.                           *)
Ready(s, u) == \E i \in 1 .. Len(s.queue) : s.queue[i].proc.uid = u

(* C24: a record whose time_units has been ticked down to zero ends its    *)
(* lifetime when it leaves the current slot, by retirement or by an        *)
(* admission that preempts it: it is not placed in the ready set and not   *)
(* returned as a displaced or bumped record.                               *)
C24_FinishedRecordIsDropped ==
    (/\ is_some(sched.scheduled)
     /\ unwrap(sched.scheduled).proc.time_units = 0
     /\ unwrap(sched.scheduled).proc.static_time_units > 0) =>
        /\ LET Retired(f) ==
                   /\ ~Ready(f.s, unwrap(sched.scheduled).proc.uid)
                   /\ is_none(f.bumped)
                   /\ f.s.scheduled # sched.scheduled
           IN Retired(fetch_current(sched))
        /\ \A p \in Admissible :
              LET Dropped(r) ==
                      /\ ~Ready(r.s, unwrap(sched.scheduled).proc.uid)
                      /\ is_none(r.ret)
              IN Dropped(schedule(sched, p))

(* C25: every admitted process, one admitted with time_units = 0 included, *)
(* has been returned by current at least once by the time it is retired.   *)
C25_ReturnedBeforeRetired ==
    \A u \in Admitted :
        (\A i \in 1 .. Len(Records(sched)) : Records(sched)[i].proc.uid # u)
            => ran[u] = <<1>>

(* C26: under RoundRobin a current record whose time_units and lifetime    *)
(* are both zero is retired as finished: fetch_current takes it out of the *)
(* Scheduler, does not re-admit it to the ready set and does not return it *)
(* as a bumped record; the ready set loses only the record installed.      *)
C26_FinishedAtExpiryIsRetired ==
    (/\ sched.policy.kind = "RoundRobin"
     /\ is_some(sched.scheduled)
     /\ unwrap(sched.scheduled).proc.time_units = 0
     /\ unwrap(sched.scheduled).lifetime <= 0) =>
        LET Retired(f) ==
                /\ is_none(f.bumped)
                /\ ~Ready(f.s, unwrap(sched.scheduled).proc.uid)
                /\ f.s.scheduled # sched.scheduled
                /\ Len(Records(f.s)) = Len(sched.queue)
        IN Retired(fetch_current(sched))

(* The last tick took the current record's last unit of work and the last  *)
(* unit of its quantum, and another record is ready.                       *)
C26_Witness ==
    /\ sched.policy.kind = "RoundRobin"
    /\ sched.policy.quantum = 2
    /\ last.op = "tick"
    /\ last.n = 1
    /\ unwrap(last.ret).lifetime = 1
    /\ unwrap(last.ret).proc.time_units = 1
    /\ is_some(sched.scheduled)
    /\ unwrap(sched.scheduled).lifetime = 0
    /\ unwrap(sched.scheduled).proc.time_units = 0
    /\ unwrap(sched.scheduled).proc.static_time_units = 2
    /\ Len(sched.queue) >= 1

----------------------------------------------------------------------------
(* The round-robin quantum.                                                *)

(* The processes that may arrive at a Scheduler: those a driver admits,    *)
(* and those a level above hands down after they have run for a while.     *)
Arrivals ==
    {[p EXCEPT !.time_units = t] : p \in Admissible, t \in Times}

(* C27: under RoundRobin(q) a record installed as current has lifetime q:  *)
(* when schedule installs an arriving process in an idle Scheduler, and    *)
(* when fetch_current ends the turn of the current record and installs a   *)
(* ready record or, the ready set being empty and feedback off, the        *)
(* expired record again.                                                   *)
C27_InstalledWithFullQuantum ==
    sched.policy.kind = "RoundRobin" =>
        /\ is_none(sched.scheduled) =>
              \A p \in Arrivals :
                  LET Installed(r) ==
                          /\ is_some(r.s.scheduled)
                          /\ unwrap(r.s.scheduled).proc = p
                          /\ unwrap(r.s.scheduled).lifetime = sched.policy.quantum
                  IN Installed(schedule(sched, p))
        /\ TurnEnds(sched) =>
              LET Installed(f) ==
                      /\ is_some(f.s.scheduled) =>
                            unwrap(f.s.scheduled).lifetime = sched.policy.quantum
                      /\ (~sched.feedback
                            /\ unwrap(sched.scheduled).proc.time_units > 0
                            /\ Len(sched.queue) = 0)
                           => /\ is_some(f.s.scheduled)
                              /\ unwrap(f.s.scheduled).proc
                                    = unwrap(sched.scheduled).proc
              IN Installed(fetch_current(sched))

(* The only process admitted used up its quantum of 2 with work left, and  *)
(* current has installed it again with lifetime 2.                         *)
C27_Witness ==
    /\ sched.policy.kind = "RoundRobin"
    /\ sched.policy.quantum = 2
    /\ ~sched.feedback
    /\ Len(left) = 1
    /\ last.op = "current"
    /\ is_some(sched.scheduled)
    /\ unwrap(sched.scheduled).lifetime = 2
    /\ unwrap(sched.scheduled).proc.time_units = 1
    /\ unwrap(sched.scheduled).proc.static_time_units = 3

----------------------------------------------------------------------------
(* The current slot and the ready set.                                     *)

(* C28: in every reachable state of a Scheduler, with any policy and with  *)
(* feedback on or off, an empty current slot comes with an empty ready     *)
(* set; so when current returns None the Scheduler holds no record; and    *)
(* under RoundRobin without feedback a record whose quantum has expired    *)
(* while the ready set is empty stays current, with lifetime q.            *)
C28_NoCurrentMeansNothingReady ==
    /\ is_none(sched.scheduled) => Len(sched.queue) = 0
    /\ LET Empty(c) == is_none(c.ret) => Len(Records(c.s)) = 0
       IN Empty(current(sched))
    /\ (/\ sched.policy.kind = "RoundRobin"
        /\ ~sched.feedback
        /\ is_some(sched.scheduled)
        /\ unwrap(sched.scheduled).proc.time_units > 0
        /\ unwrap(sched.scheduled).lifetime <= 0
        /\ Len(sched.queue) = 0) =>
           LET Stays(c) ==
                   /\ is_some(c.ret)
                   /\ unwrap(c.ret).proc = unwrap(sched.scheduled).proc
                   /\ unwrap(c.ret).lifetime = sched.policy.quantum
                   /\ Len(c.s.queue) = 0
           IN Stays(current(sched))

(* Under PreemptivePriority with feedback every process that could be      *)
(* admitted has been, and a current call has found nothing left to run.    *)
C28_Witness ==
    /\ sched.policy.kind = "PreemptivePriority"
    /\ sched.feedback
    /\ is_none(sched.scheduled)
    /\ Len(left) = MaxAdmissions
    /\ last.op = "current"
    /\ is_none(last.ret)

----------------------------------------------------------------------------
(* The prediction table.                                                   *)

(* Every record Scheduler s holds has a table entry for its id.            *)
EntriesPresent(s) ==
    \A i \in 1 .. Len(Records(s)) :
        contains_key(s.srt_time_table, Records(s)[i].proc.id)

(* C29: every record that is current or ready has a prediction-table entry *)
(* for its id; the first statement of an admission provides the entry of   *)
(* the arriving id, and admission, installation and retirement keep every  *)
(* entry they and later steps read, whatever ids are reused.               *)
C29_TableEntryAlwaysPresent ==
    /\ EntriesPresent(sched)
    /\ \A p \in Arrivals :
          contains_key(seed_entry(sched, p.id).srt_time_table, p.id)
    /\ \A p \in Arrivals :
          LET Kept(r) ==
                  /\ EntriesPresent(r.s)
                  /\ DOMAIN sched.srt_time_table \subseteq DOMAIN r.s.srt_time_table
          IN Kept(schedule(sched, p))
    /\ LET Kept(f) ==
               /\ EntriesPresent(f.s)
               /\ DOMAIN f.s.srt_time_table = DOMAIN sched.srt_time_table
       IN Kept(fetch_current(sched))

(* Under ShortestRemainingTime the id of the current record differs from   *)
(* that of a ready record, and the ready record's id has been admitted     *)
(* before: its entry is no longer the default.                             *)
C29_Witness ==
    /\ sched.policy.kind = "ShortestRemainingTime"
    /\ is_some(sched.scheduled)
    /\ Len(sched.queue) >= 1
    /\ sched.queue[1].proc.id # unwrap(sched.scheduled).proc.id
    /\ DOMAIN sched.srt_time_table = Ids
    /\ sched.srt_time_table[sched.queue[1].proc.id] # INITIAL_TAU * Scale

(* The Schedulers of the state: the stand-alone one, or the levels.        *)
Schedulers == IF Len(levels) = 0 THEN <<sched>> ELSE levels

(* The processes that may arrive at any Scheduler.                         *)
AnyArrival ==
    {[Process(Len(left) + 1, id, pr, t) EXCEPT !.time_units = t2] :
        id \in Ids, pr \in Priorities, t \in {0, MaxTime}, t2 \in {0, 1}}

(* Table `after` has every entry of table `before`, unchanged.             *)
EntriesKept(before, after) ==
    \A id \in DOMAIN before : id \in DOMAIN after /\ after[id] = before[id]

(* Scheduler s: under a policy other than ShortestRemainingTime every      *)
(* entry is the default; an admission changes no entry and gives a new id  *)
(* the default, whether it preempts or not; fetch_current changes at most  *)
(* the entry of the id of a finished current record, and only under        *)
(* ShortestRemainingTime (so not on quantum expiry); a tick changes none.  *)
TableFrame(s) ==
    /\ s.policy.kind # "ShortestRemainingTime" =>
          \A id \in DOMAIN s.srt_time_table :
              s.srt_time_table[id] = INITIAL_TAU * Scale
    /\ \A p \in AnyArrival :
          LET Seeded(t) ==
                  /\ EntriesKept(s.srt_time_table, t)
                  /\ DOMAIN t = DOMAIN s.srt_time_table \cup {p.id}
                  /\ p.id \notin DOMAIN s.srt_time_table
                        => t[p.id] = INITIAL_TAU * Scale
          IN Seeded(schedule(s, p).s.srt_time_table)
    /\ LET Learned(t) ==
               /\ DOMAIN t = DOMAIN s.srt_time_table
               /\ \A id \in DOMAIN t :
                     t[id] # s.srt_time_table[id] =>
                         /\ s.policy.kind = "ShortestRemainingTime"
                         /\ is_some(s.scheduled)
                         /\ unwrap(s.scheduled).proc.time_units = 0
                         /\ unwrap(s.scheduled).proc.id = id
       IN Learned(fetch_current(s).s.srt_time_table)
    /\ is_some(s.scheduled) =>
          [s EXCEPT !.scheduled = Some(tick(unwrap(s.scheduled)))].srt_time_table
              = s.srt_time_table

(* In a MultilevelQueue an admission changes no entry at any level, and    *)
(* the retirement step of one level changes no entry at any other level.   *)
LevelsApart ==
    Len(levels) > 0 =>
        /\ \A p \in Inputs(PoliciesOf(levels), LevelPriorities, LevelTimes) :
              LET Kept(lv) ==
                      \A k \in 1 .. Len(levels) :
                          EntriesKept(levels[k].srt_time_table,
                                      lv[k].srt_time_table)
              IN Kept(MultilevelSchedule(levels, p))
        /\ \A level \in 0 .. Len(levels) - 1 :
              LET Kept(lv) ==
                      \A k \in 1 .. Len(levels) :
                          k # level + 1 =>
                              EntriesKept(levels[k].srt_time_table,
                                          lv[k].srt_time_table)
              IN Kept(RetireStep(levels, level))

(* In every step of a driver an entry of a Scheduler changes only if that  *)
(* Scheduler works under ShortestRemainingTime and held a finished record  *)
(* with that id.                                                           *)
ChangedByOwnRetirement ==
    \A k \in 1 .. Len(Schedulers) :
        \A id \in DOMAIN Schedulers[k].srt_time_table :
            Schedulers'[k].srt_time_table[id] # Schedulers[k].srt_time_table[id]
                => /\ Schedulers[k].policy.kind = "ShortestRemainingTime"
                   /\ \E i \in 1 .. Len(Records(Schedulers[k])) :
                         /\ Records(Schedulers[k])[i].proc.id = id
                         /\ Records(Schedulers[k])[i].proc.time_units = 0

(* C30: a prediction-table entry, once created with the default, is        *)
(* changed only by the retirement of a finished record with that id under  *)
(* ShortestRemainingTime: admission of a known id, preemption, quantum     *)
(* expiry and ticking leave every entry unchanged, under the other four    *)
(* policies every entry stays at the default, and each level of a          *)
(* MultilevelQueue keeps its own table whatever happens at other levels.   *)
C30_EntryChangedOnlyByRetirement ==
    /\ [](\A k \in 1 .. Len(Schedulers) : TableFrame(Schedulers[k]))
    /\ [](LevelsApart)
    /\ [][ChangedByOwnRetirement]_vars

(* A two-level queue whose levels both work under ShortestRemainingTime:   *)
(* level 0 has learned a prediction for id 0 and has displaced a process   *)
(* of id 1 to level 1, whose table has the default for id 1 and no entry   *)
(* for id 0.                                                               *)
C30_Witness ==
    /\ Len(levels) = 2
    /\ levels[1].policy.kind = "ShortestRemainingTime"
    /\ levels[2].policy.kind = "ShortestRemainingTime"
    /\ DOMAIN levels[1].srt_time_table = {0, 1}
    /\ DOMAIN levels[2].srt_time_table = {1}
    /\ levels[1].srt_time_table[0] # INITIAL_TAU * Scale
    /\ levels[2].srt_time_table[1] = INITIAL_TAU * Scale
    /\ is_some(levels[2].scheduled)

----------------------------------------------------------------------------
(* Selection under ShortestRemainingTime.                                  *)

(* C31: under ShortestRemainingTime the retirement of a finished current   *)
(* record installs a ready record whose estimated_remaining_time is        *)
(* minimal among the ready records, negative estimates ordered below       *)
(* positive ones, and removes just that record; with a non-empty ready set *)
(* the selection always yields a record.                                   *)
C31_ReplacementHasMinimalEstimate ==
    (sched.policy.kind = "ShortestRemainingTime" /\ RetirementDue) =>
        LET Selected(n, f) ==
                /\ is_some(n.rec)
                /\ is_some(f.s.scheduled)
                /\ unwrap(f.s.scheduled).proc = unwrap(n.rec).proc
                /\ \E i \in 1 .. Len(sched.queue) :
                      /\ unwrap(n.rec) = sched.queue[i]
                      /\ f.s.queue = RemoveAt(sched.queue, i)
                      /\ \A j \in 1 .. Len(sched.queue) :
                            sched.queue[j].estimated_remaining_time
                               >= sched.queue[i].estimated_remaining_time
        IN Selected(next(sched), fetch_current(sched))

(* A retirement is due while the ready set holds a record with a positive  *)
(* estimate in front of a record with a negative one.                      *)
C31_Witness ==
    /\ sched.policy.kind = "ShortestRemainingTime"
    /\ RetirementDue
    /\ Len(sched.queue) = 2
    /\ sched.queue[1].estimated_remaining_time > 0
    /\ sched.queue[2].estimated_remaining_time < 0

----------------------------------------------------------------------------
(* The insertion clock.                                                    *)

(* An admission advances the clock by one exactly when it appends the      *)
(* arriving process to the ready set; the retirement step advances it by   *)
(* one exactly when it re-admits an expired record behind other records.   *)
ClockCountsAppends ==
    /\ \A p \in Arrivals :
          LET Counted(r) ==
                  r.s.clock = IF QueuedBehind(r.s, p) THEN sched.clock + 1
                              ELSE sched.clock
          IN Counted(schedule(sched, p))
    /\ LET Counted(f) ==
               f.s.clock =
                   IF /\ is_some(sched.scheduled)
                      /\ Ready(f.s, unwrap(sched.scheduled).proc.uid)
                   THEN sched.clock + 1 ELSE sched.clock
       IN Counted(fetch_current(sched))

(* Under FirstComeFirstServe and RoundRobin the schedule_time values of    *)
(* the ready set increase from front to back and are below the clock.      *)
ReadyInClockOrder ==
    sched.policy.kind \in {"FirstComeFirstServe", "RoundRobin"} =>
        /\ \A i \in 1 .. Len(sched.queue) :
              sched.queue[i].schedule_time < sched.clock
        /\ \A i \in 1 .. Len(sched.queue) : \A j \in 1 .. Len(sched.queue) :
              i < j => sched.queue[i].schedule_time < sched.queue[j].schedule_time

----------------------------------------------------------------------------
(* A MultilevelQueue as in SpecM whose driver remembers, for every process, *)
(* the level from which current_with_key reported it last (ran[uid], 0     *)
(* when it has not been reported).                                         *)
HandedDownPriorities == {0 - 1, 0, 1}

(* A process that is finished on admission, or one that outlasts a quantum. *)
OvershadowTimes == {0, MaxLevelTime}

(* Two levels: a top level that displaces (PreemptivePriority) or demotes  *)
(* (RoundRobin) over every policy.                                         *)
OvershadowConfigs ==
    {with_level(with_level(MultilevelQueueNew, top), low) :
        top \in {PreemptivePriority, RoundRobin(MaxLevelQuantum)},
        low \in LevelPolicies}

InitV ==
    /\ levels \in OvershadowConfigs
    /\ sched = SchedulerNew(FirstComeFirstServe)
    /\ left = <<>>
    /\ last = NoCall
    /\ ran = <<>>

ReportedFrom(r, c) ==
    IF is_some(c.ret)
    THEN [r EXCEPT ![unwrap(c.ret)[2].proc.uid] = unwrap(c.ret)[1] + 1]
    ELSE r

VSchedule ==
    /\ Len(left) < MaxQueueAdmissions
    /\ \E p \in Inputs(PoliciesOf(levels), HandedDownPriorities, OvershadowTimes) :
          /\ levels' = MultilevelSchedule(levels, p)
          /\ left' = Append(left, p.time_units)
          /\ ran' = Append(ran, 0)
          /\ last' = [op |-> "schedule", ret |-> None, n |-> 0]
    /\ UNCHANGED sched

VCurrent ==
    /\ \E c \in {current_with_key(levels)} :
          /\ LevelsOk(c.levels)
          /\ levels' = c.levels
          /\ ran' = ReportedFrom(ran, c)
          /\ last' = [op |-> "current", ret |-> c.ret, n |-> 0]
    /\ UNCHANGED <<sched, left>>

(* queue.current_unchecked().tick()                                        *)
VTick ==
    /\ \E c \in {current_with_key(levels)} :
          /\ is_some(c.ret)
          /\ LET key == unwrap(c.ret)[1]
                 r == tick(unwrap(c.ret)[2])
             IN /\ levels' = [c.levels EXCEPT ![key + 1].scheduled = Some(r)]
                /\ left' = [left EXCEPT ![r.proc.uid] = r.proc.time_units]
          /\ ran' = ReportedFrom(ran, c)
          /\ last' = [op |-> "tick", ret |-> c.ret, n |-> 1]
    /\ UNCHANGED sched

NextV == VSchedule \/ VCurrent \/ VTick

SpecV == InitV /\ [][NextV]_vars

(* Level k (1-based, below the top) holds a current record that was last   *)
(* reported from that level while a level above it holds work.             *)
Overshadowed(k) ==
    /\ is_some(levels[k].scheduled)
    /\ ran[unwrap(levels[k].scheduled).proc.uid] = k
    /\ \E h \in 1 .. k - 1 : Records(levels[h]) # <<>>

(* The step reports the record that is current at level k.                 *)
ReportsCurrentOf(k) ==
    /\ last'.op \in {"current", "tick"}
    /\ is_some(last'.ret)
    /\ unwrap(last'.ret)[2].proc.uid = unwrap(levels[k].scheduled).proc.uid

(* The current record of level k has work left and, under round robin,     *)
(* quantum left.                                                           *)
HasTurnLeft(k) ==
    /\ unwrap(levels[k].scheduled).proc.time_units > 0
    /\ levels[k].policy.kind = "RoundRobin"
          => unwrap(levels[k].scheduled).lifetime > 0

(* Level k preempts on admission and its current slot has gone to another  *)
(* record.                                                                 *)
PreemptedBelow(k) ==
    /\ levels[k].policy.kind \in {"PreemptivePriority", "ShortestRemainingTime"}
    /\ is_some(levels'[k].scheduled)
    /\ unwrap(levels'[k].scheduled).proc.uid
          # unwrap(levels[k].scheduled).proc.uid

(* An admission that level 0 takes without displacing anything leaves      *)
(* every lower level (current record, ready set, table, clock) as it was.  *)
LowerLevelsFramed ==
    \A p \in Inputs(PoliciesOf(levels), HandedDownPriorities, OvershadowTimes) :
       is_none(schedule(levels[1], p).ret)
          => \A k \in 2 .. Len(levels) : MultilevelSchedule(levels, p)[k] = levels[k]

SlotKept ==
    \A k \in 2 .. Len(levels) :
       (Overshadowed(k) /\ HasTurnLeft(k) /\ ~ReportsCurrentOf(k))
          => levels'[k].scheduled = levels[k].scheduled

SlotKeptUnlessPreempted ==
    \A k \in 2 .. Len(levels) :
       (Overshadowed(k) /\ HasTurnLeft(k) /\ ~ReportsCurrentOf(k))
          => \/ levels'[k].scheduled = levels[k].scheduled
             \/ PreemptedBelow(k)

(* C33 as stated: a MultilevelQueue::schedule whose level-0 admission does *)
(* not preempt changes level 0 only, and a lower-level current record that *)
(* is no longer reported because a higher level holds work keeps its       *)
(* current slot, its time_units and its remaining quantum in every step    *)
(* that does not report it.                                                *)
C33_LowerLevelsUntouched == [](LowerLevelsFramed) /\ [][SlotKept]_vars

(* C33 amended: the same, for a lower-level current record that has work   *)
(* and quantum left, and unless a record handed down to its level preempts *)
(* it under PreemptivePriority or ShortestRemainingTime.                   *)
C33_LowerLevelsUntouchedWhileTurnLeft ==
    [](LowerLevelsFramed) /\ [][SlotKeptUnlessPreempted]_vars

(* Level 1 holds an untouched current record with work left that was       *)
(* reported before, and the last call reported the record of level 0.      *)
C33_Witness ==
    /\ Len(levels) = 2
    /\ Overshadowed(2)
    /\ unwrap(levels[2].scheduled).proc.time_units > 0
    /\ last.op = "tick"
    /\ unwrap(last.ret)[1] = 0

----------------------------------------------------------------------------
(* A process admitted now is resident at level 0 and nowhere else.         *)
EntersAtLevelZero ==
    \A p \in Inputs(PoliciesOf(levels), LevelPriorities, LevelTimes) :
       LET Entered(lv) ==
               /\ Places(lv, p.uid) # {}
               /\ \A x \in Places(lv, p.uid) : x[1] = 1
       IN Entered(MultilevelSchedule(levels, p))

(* No step takes a resident process to a level of smaller index.           *)
NeverPromoted ==
    \A u \in Admitted :
       \A x \in Places(levels, u) :
          \A y \in Places(levels', u) : y[1] >= x[1]

----------------------------------------------------------------------------
(* The result of a call of current, and of the call that follows it.       *)
SchedulerReadTwice == LET Again(c) == <<c, current(c.s)>> IN Again(current(sched))

QueueReadTwice ==
    LET Again(c) == <<c, current_with_key(c.levels)>>
    IN Again(current_with_key(levels))

(* Every record the scheduler holds was admitted with work to do.          *)
AdmittedWithWork(s) ==
    \A i \in 1 .. Len(Records(s)) : Records(s)[i].proc.static_time_units > 0

(* C35: two consecutive calls of Scheduler::current (or of                 *)
(* MultilevelQueue::current_with_key) with no tick and no schedule call in *)
(* between return the same record, or both None, and the second call       *)
(* leaves the scheduler state as the first left it (checked where every    *)
(* resident process was admitted with time_units > 0).                     *)
C35_CurrentIsIdempotent ==
    /\ (Len(levels) = 0 /\ AdmittedWithWork(sched)) =>
          /\ SchedulerReadTwice[2].ret = SchedulerReadTwice[1].ret
          /\ SchedulerReadTwice[2].s = SchedulerReadTwice[1].s
    /\ (Len(levels) > 0 /\ \A k \in 1 .. Len(levels) : AdmittedWithWork(levels[k])) =>
          /\ QueueReadTwice[2].ret = QueueReadTwice[1].ret
          /\ QueueReadTwice[2].levels = QueueReadTwice[1].levels

----------------------------------------------------------------------------
(* The loop of scheduler_rr over a stand-alone RoundRobin(q) Scheduler,    *)
(* q >= 1, feedback = false: current before every tick, admissions at any  *)
(* time.  Here ran[u] = <<d>>, d the ticks that may still be given before  *)
(* process u must be current: whenever u is in the ready set with k        *)
(* records ahead of it, d is lowered to (k + 1) * q if it is larger, and   *)
(* every tick takes one off.                                               *)
NoDeadline == (MaxQueueAdmissions + 1) * MaxQuantum

(* The position of process u in the ready set, 0 when it is not there.     *)
ReadyPosition(s, u) ==
    LET at == {i \in 1 .. Len(s.queue) : s.queue[i].proc.uid = u}
    IN IF at = {} THEN 0 ELSE CHOOSE i \in at : \A j \in at : i <= j

(* The records ahead of u in the order in which next takes them.           *)
Ahead(s, u) ==
    Cardinality({i \in 1 .. Len(s.queue) :
                    KeyScheduleTime(s.queue[i])
                       < KeyScheduleTime(s.queue[ReadyPosition(s, u)])})

Deadlines(s, d, spent) ==
    [u \in 1 .. Len(d) |->
        IF ReadyPosition(s, u) = 0 THEN <<NoDeadline>>
        ELSE LET bound == (Ahead(s, u) + 1) * s.policy.quantum
             IN <<(IF d[u][1] < bound THEN d[u][1] ELSE bound) - spent>>]

InitW ==
    /\ sched \in {SchedulerNew(RoundRobin(q)) : q \in 1 .. MaxQuantum}
    /\ levels = MultilevelQueueNew
    /\ left = <<>>
    /\ last = NoCall
    /\ ran = <<>>

WSchedule ==
    /\ Len(left) < MaxQueueAdmissions
    /\ \E p \in Inputs({sched.policy}, {0}, Times) :
          \E s \in {schedule(sched, p).s} :
             /\ sched' = s
             /\ left' = Append(left, p.time_units)
             /\ last' = [op |-> "schedule", ret |-> None, n |-> 0]
             /\ ran' = Deadlines(s, Append(ran, <<NoDeadline>>), 0)
    /\ UNCHANGED levels

(* if let Some(r) = scheduler.current() { r.tick() }                       *)
WDrive ==
    /\ \E c \in {current(sched)} :
          IF is_some(c.ret)
          THEN LET r == tick(unwrap(c.ret))
               IN /\ sched' = [c.s EXCEPT !.scheduled = Some(r)]
                  /\ left' = [left EXCEPT ![r.proc.uid] = r.proc.time_units]
                  /\ last' = [op |-> "tick", ret |-> c.ret, n |-> 1]
                  /\ ran' = Deadlines(c.s, ran, 1)
          ELSE /\ sched' = c.s
               /\ left' = left
               /\ last' = [op |-> "current", ret |-> None, n |-> 0]
               /\ ran' = Deadlines(c.s, ran, 0)
    /\ UNCHANGED levels

NextW == WSchedule \/ WDrive

SpecW == InitW /\ [][NextW]_vars

(* C36: under RoundRobin(q), q >= 1, feedback = false, with current called *)
(* before every tick, a ready record with k records ahead of it is current *)
(* after at most (k + 1) * q further ticks, whatever is admitted           *)
(* meanwhile: no ready record is ever ticked past a deadline it was given. *)
C36_ReadyRecordRunsWithinBound ==
    \A u \in Admitted : ReadyPosition(sched, u) # 0 => ran[u][1] >= 0

(* A record has waited in the ready set to the last tick of its deadline   *)
(* while later admissions queued behind it.                                *)
C36_Witness ==
    \E u \in Admitted :
       /\ ReadyPosition(sched, u) = 1
       /\ ran[u][1] = 0
       /\ Len(sched.queue) >= 2
       /\ last.op = "tick"

----------------------------------------------------------------------------
(* memory::ipc::IpcChannel shared by MaxThreads threads, each of which     *)
(* calls send, try_recv or recv again and again.  Every access to the      *)
(* queue is made with the mutex held, so a critical section is one step;   *)
(* Condvar::wait gives the mutex up, parks the thread, and on notify_one   *)
(* the thread has to take the mutex again before it goes on.  Here ran is  *)
(* the channel and its threads:                                            *)
(*   queue    the VecDeque under the mutex                                 *)
(*   waiting  the threads parked in signal.wait                            *)
(*   woken    the threads notified that have not yet retaken the mutex     *)
(*   panicked the threads whose unwrap() found None                        *)
(*   sent     how many values have been sent (the values are 1 .. sent)    *)
(*   returned <<thread, value>> for every value a receive call returned    *)
MaxThreads == 3
MaxSends == 3

Threads == 1 .. MaxThreads

(* IpcChannel::new                                                         *)
IpcChannelNew ==
    [queue |-> <<>>, waiting |-> {}, woken |-> {}, panicked |-> {},
     sent |-> 0, returned |-> <<>>]

(* A thread that is not inside a call.                                     *)
Idle(t) == t \notin (ran.waiting \cup ran.woken \cup ran.panicked)

(* signal.notify_one(): one parked thread, if there is one, is woken.      *)
notify_one(ch) ==
    IF ch.waiting = {} THEN {ch}
    ELSE {[ch EXCEPT !.waiting = @ \ {w}, !.woken = @ \cup {w}] : w \in ch.waiting}

(* queue.pop_front().unwrap() by thread t: the value is returned, or the   *)
(* thread panics on None.                                                  *)
pop_front_unwrap(ch, t) ==
    IF ch.queue # <<>>
    THEN [ch EXCEPT !.queue = Tail(@),
                    !.returned = Append(@, <<t, Head(ch.queue)>>)]
    ELSE [ch EXCEPT !.panicked = @ \cup {t}]

InitI ==
    /\ ran = IpcChannelNew
    /\ sched = SchedulerNew(FirstComeFirstServe)
    /\ levels = MultilevelQueueNew
    /\ left = <<>>
    /\ last = NoCall

(* IpcChannel::send                                                        *)
ISend(t) ==
    /\ Idle(t)
    /\ ran.sent < MaxSends
    /\ ran' \in notify_one([ran EXCEPT !.queue = Append(@, ran.sent + 1),
                                       !.sent = @ + 1])
    /\ last' = [op |-> "send", ret |-> None, n |-> t]
    /\ UNCHANGED <<sched, levels, left>>

(* IpcChannel::try_recv                                                    *)
ITryRecv(t) ==
    /\ Idle(t)
    /\ IF ran.queue # <<>>
       THEN /\ ran' = pop_front_unwrap(ran, t)
            /\ last' = [op |-> "try_recv", ret |-> Some(Head(ran.queue)), n |-> t]
       ELSE /\ ran' = ran
            /\ last' = [op |-> "try_recv", ret |-> None, n |-> t]
    /\ UNCHANGED <<sched, levels, left>>

(* IpcChannel::recv up to its return or to signal.wait                     *)
IRecv(t) ==
    /\ Idle(t)
    /\ IF ran.queue # <<>>
       THEN /\ ran' = pop_front_unwrap(ran, t)
            /\ last' = [op |-> "recv", ret |-> Some(Head(ran.queue)), n |-> t]
       ELSE /\ ran' = [ran EXCEPT !.waiting = @ \cup {t}]
            /\ last' = [op |-> "wait", ret |-> None, n |-> t]
    /\ UNCHANGED <<sched, levels, left>>

(* IpcChannel::recv after signal.wait: the mutex is retaken, then          *)
(* queue.pop_front().unwrap()                                              *)
IRecvWoken(t) ==
    /\ t \in ran.woken
    /\ \E ch \in {[ran EXCEPT !.woken = @ \ {t}]} :
          /\ ran' = pop_front_unwrap(ch, t)
          /\ last' = IF ch.queue # <<>>
                     THEN [op |-> "recv", ret |-> Some(Head(ch.queue)), n |-> t]
                     ELSE [op |-> "panic", ret |-> None, n |-> t]
    /\ UNCHANGED <<sched, levels, left>>

NextI ==
    \E t \in Threads : ISend(t) \/ ITryRecv(t) \/ IRecv(t) \/ IRecvWoken(t)

SpecI == InitI /\ [][NextI]_vars

(* C37: under any interleaving of send, recv and try_recv calls on one     *)
(* IpcChannel with several receiver threads no recv call panics on an      *)
(* empty queue, and every value returned was sent and has been returned    *)
(* once only.                                                              *)
C37_RecvNeverPanics ==
    /\ ran.panicked = {}
    /\ \A i \in 1 .. Len(ran.returned) :
          /\ ran.returned[i][2] \in 1 .. ran.sent
          /\ \A j \in 1 .. Len(ran.returned) :
                ran.returned[j][2] = ran.returned[i][2] => j = i

====
